---- MODULE Spec2Model ----
(***************************************************************************)
(* Task session controller of the browser agent UI (web/app.js).           *)
(*                                                                         *)
(* app.js holds two variants of the client: the base client (lines 1-306)  *)
(* and the localized client with the reply input (lines 308-957).  The     *)
(* variable `variant` says which of them is loaded in the page.            *)
(*                                                                         *)
(* Handlers run to completion (single-threaded event loop): one action is  *)
(* one handler up to its await, or one continuation after the await.       *)
(* Texts typed by the user are sequences of chunks, so that trim() is      *)
(* computed and not assumed.                                               *)
(***************************************************************************)
EXTENDS Integers, Sequences, FiniteSets, TLC

\* ----- bounds of the exploration
MaxTasks == 2       \* task-creation requests issued in one behaviour
MaxLog == 2         \* lines in the log element
MaxRequests == 2    \* outbound requests issued in one behaviour
MaxEffects == 4     \* keys stored plus requests issued where lookups run
MaxDuration == 3000 \* the largest duration_ms formatted on its own

VARIABLES
  variant,              \* "base" (lines 1-306) or "rich" (lines 308-957)
  currentLang,          \* let currentLang
  localStorage,         \* persistent key-value store
  statusEl,             \* statusEl.textContent
  logEl,                \* logEl.textContent, as the sequence of its lines
  runBtn,               \* runBtn.disabled
  confirmBtn,           \* confirmBtn.disabled
  stopBtn,              \* stopBtn.disabled
  userReplyWrap,        \* userReplyWrap.classList.contains('hidden')
  userReplyInput,       \* userReplyInput.value, as chunks
  waitingForUserInput,  \* let waitingForUserInput
  taskId,               \* let taskId (0 is null)
  eventSource,          \* let eventSource: index into sources (0 is null)
  sources,              \* every EventSource constructed so far
  requests,             \* every fetch() issued so far, with its outcome
  last,                 \* the handler that ran last, and its branch
  providerEl,           \* providerEl.value
  modelEl,              \* modelEl: its options and its value
  searchEngineEl,       \* searchEngineEl.value
  safeModeEl,           \* safeModeEl.checked
  browserOnlyEl,        \* browserOnlyEl.checked
  theme,                \* document.body.dataset.theme
  keyInput,             \* value of each provider's key input, as chunks
  outputEl,             \* textContent of each provider's models output
  scope,                \* what a behaviour explores: "session", "clicks",
                        \* "tasks" or "lookup"
  gates                 \* gate events processed for the current task

vars == <<variant, currentLang, localStorage, statusEl, logEl, runBtn,
          confirmBtn, stopBtn, userReplyWrap, userReplyInput,
          waitingForUserInput, taskId, eventSource, sources, requests,
          providerEl, modelEl, searchEngineEl, safeModeEl, browserOnlyEl,
          theme, keyInput, outputEl, last, scope, gates>>

\* ----- text helpers
IsSpace(c) == c \in {"", " "}

RECURSIVE TrimStart(_)
TrimStart(cs) ==
  IF cs # <<>> /\ IsSpace(Head(cs)) THEN TrimStart(Tail(cs)) ELSE cs

RECURSIVE TrimEnd(_)
TrimEnd(cs) ==
  IF cs # <<>> /\ IsSpace(cs[Len(cs)])
  THEN TrimEnd(SubSeq(cs, 1, Len(cs) - 1)) ELSE cs

\* String.prototype.trim on a chunked text
Trim(cs) == TrimEnd(TrimStart(cs))

RECURSIVE Str(_)
\* the string a chunked text stands for
Str(cs) == IF cs = <<>> THEN "" ELSE Head(cs) \o Str(Tail(cs))

RECURSIVE Join(_, _)
\* Array.prototype.join
Join(parts, sep) ==
  IF parts = <<>> THEN ""
  ELSE IF Len(parts) = 1 THEN parts[1]
  ELSE parts[1] \o sep \o Join(Tail(parts), sep)

Digit(d) == <<"0", "1", "2", "3", "4", "5", "6", "7", "8", "9">>[d + 1]

RECURSIVE NumStr(_)
\* String(n) for a natural number
NumStr(n) == IF n < 10 THEN Digit(n) ELSE NumStr(n \div 10) \o Digit(n % 10)

\* an optional field of a payload: <<>> is absent, <<v>> is present
\* `o || ''` for an optional string field
OrEmpty(o) == IF o = <<>> THEN "" ELSE o[1]


\* ----- localization (rich client)
I18N == [
  en |-> [
      status_idle |-> "Idle",
      status_starting |-> "Starting task...",
      status_wait_confirm |-> "Waiting for confirmation",
      status_wait_user |-> "Waiting for user input",
      status_prefix |-> "Status:",
      status_running |-> "running",
      status_waiting_confirm |-> "waiting_confirm",
      status_waiting_user |-> "waiting_user",
      status_done |-> "done",
      status_stopped |-> "stopped",
      status_error |-> "error",
      status_queued |-> "queued",
      log_confirm |-> "CONFIRM REQUIRED",
      log_user_input |-> "USER INPUT NEEDED",
      log_result |-> "RESULT",
      log_event_error |-> "Event stream error or closed.",
      log_failed_start |-> "Failed to start",
      alert_enter_task |-> "Enter a task prompt.",
      alert_enter_reply |-> "Enter a reply for the agent.",
      action_navigate |-> "navigating",
      action_click |-> "clicking",
      action_type |-> "typing",
      action_extract |-> "analyzing",
      action_snapshot |-> "scanning",
      action_scroll |-> "scrolling",
      action_wait |-> "waiting",
      action_back |-> "back",
      action_forward |-> "forward",
      action_ask_user |-> "asking",
      action_finish |-> "finishing",
      action_stop_task |-> "stopping",
      action_take_screenshot |-> "screenshot",
      action_save_trace |-> "tracing",
      action_think |-> "thinking",
      action_access |-> "blocked",
      action_loop_guard |-> "stuck",
      action_user_input |-> "reply",
      action_tokens |-> "tokens",
      action_guard |-> "rerouting"
  ],
  ru |-> [
      status_idle |-> "\\u041e\\u0436\\u0438\\u0434\\u0430\\u043d\\u0438\\u0435",
      status_starting |-> "\\u0417\\u0430\\u043f\\u0443\\u0441\\u043a \\u0437\\u0430\\u0434\\u0430\\u0447\\u0438...",
      status_wait_confirm |-> "\\u041e\\u0436\\u0438\\u0434\\u0430\\u043d\\u0438\\u0435 \\u043f\\u043e\\u0434\\u0442\\u0432\\u0435\\u0440\\u0436\\u0434\\u0435\\u043d\\u0438\\u044f",
      status_wait_user |-> "\\u041e\\u0436\\u0438\\u0434\\u0430\\u043d\\u0438\\u0435 \\u0432\\u0432\\u043e\\u0434\\u0430",
      status_prefix |-> "\\u0421\\u0442\\u0430\\u0442\\u0443\\u0441:",
      status_running |-> "\\u0432 \\u0440\\u0430\\u0431\\u043e\\u0442\\u0435",
      status_waiting_confirm |-> "\\u043e\\u0436\\u0438\\u0434\\u0430\\u0435\\u0442 \\u043f\\u043e\\u0434\\u0442\\u0432\\u0435\\u0440\\u0436\\u0434\\u0435\\u043d\\u0438\\u044f",
      status_waiting_user |-> "\\u043e\\u0436\\u0438\\u0434\\u0430\\u0435\\u0442 \\u0432\\u0432\\u043e\\u0434\\u0430",
      status_done |-> "\\u0433\\u043e\\u0442\\u043e\\u0432\\u043e",
      status_stopped |-> "\\u043e\\u0441\\u0442\\u0430\\u043d\\u043e\\u0432\\u043b\\u0435\\u043d\\u043e",
      status_error |-> "\\u043e\\u0448\\u0438\\u0431\\u043a\\u0430",
      status_queued |-> "\\u0432 \\u043e\\u0447\\u0435\\u0440\\u0435\\u0434\\u0438",
      log_confirm |-> "\\u0422\\u0420\\u0415\\u0411\\u0423\\u0415\\u0422\\u0421\\u042f \\u041f\\u041e\\u0414\\u0422\\u0412\\u0415\\u0420\\u0416\\u0414\\u0415\\u041d\\u0418\\u0415",
      log_user_input |-> "\\u0422\\u0420\\u0415\\u0411\\u0423\\u0415\\u0422\\u0421\\u042f \\u0412\\u0412\\u041e\\u0414",
      log_result |-> "\\u0420\\u0415\\u0417\\u0423\\u041b\\u042c\\u0422\\u0410\\u0422",
      log_event_error |-> "\\u041e\\u0448\\u0438\\u0431\\u043a\\u0430 \\u043f\\u043e\\u0442\\u043e\\u043a\\u0430 \\u0441\\u043e\\u0431\\u044b\\u0442\\u0438\\u0439 \\u0438\\u043b\\u0438 \\u043e\\u043d \\u0437\\u0430\\u043a\\u0440\\u044b\\u0442.",
      log_failed_start |-> "\\u041d\\u0435 \\u0443\\u0434\\u0430\\u043b\\u043e\\u0441\\u044c \\u0441\\u0442\\u0430\\u0440\\u0442\\u043e\\u0432\\u0430\\u0442\\u044c",
      alert_enter_task |-> "\\u0412\\u0432\\u0435\\u0434\\u0438\\u0442\\u0435 \\u0437\\u0430\\u0434\\u0430\\u0447\\u0443.",
      alert_enter_reply |-> "\\u0412\\u0432\\u0435\\u0434\\u0438\\u0442\\u0435 \\u043e\\u0442\\u0432\\u0435\\u0442 \\u0434\\u043b\\u044f \\u0430\\u0433\\u0435\\u043d\\u0442\\u0430.",
      action_navigate |-> "\\u043f\\u0435\\u0440\\u0435\\u0445\\u043e\\u0436\\u0443",
      action_click |-> "\\u043a\\u043b\\u0438\\u043a\\u0430\\u044e",
      action_type |-> "\\u0432\\u0432\\u043e\\u0436\\u0443",
      action_extract |-> "\\u0430\\u043d\\u0430\\u043b\\u0438\\u0437\\u0438\\u0440\\u0443\\u044e",
      action_snapshot |-> "\\u043e\\u0441\\u043c\\u0430\\u0442\\u0440\\u0438\\u0432\\u0430\\u044e",
      action_scroll |-> "\\u043b\\u0438\\u0441\\u0442\\u0430\\u044e",
      action_wait |-> "\\u0436\\u0434\\u0443",
      action_back |-> "\\u043d\\u0430\\u0437\\u0430\\u0434",
      action_forward |-> "\\u0432\\u043f\\u0435\\u0440\\u0451\\u0434",
      action_ask_user |-> "\\u0441\\u043f\\u0440\\u0430\\u0448\\u0438\\u0432\\u0430\\u044e",
      action_finish |-> "\\u0437\\u0430\\u0432\\u0435\\u0440\\u0448\\u0430\\u044e",
      action_stop_task |-> "\\u043e\\u0441\\u0442\\u0430\\u043d\\u0430\\u0432\\u043b\\u0438\\u0432\\u0430\\u044e",
      action_take_screenshot |-> "\\u0441\\u043a\\u0440\\u0438\\u043d\\u0448\\u043e\\u0442",
      action_save_trace |-> "\\u0442\\u0440\\u0430\\u0441\\u0441\\u0438\\u0440\\u0443\\u044e",
      action_think |-> "\\u0434\\u0443\\u043c\\u0430\\u044e",
      action_access |-> "\\u043d\\u0435\\u0442 \\u0434\\u043e\\u0441\\u0442\\u0443\\u043f\\u0430",
      action_loop_guard |-> "\\u0437\\u0430\\u0441\\u0442\\u0440\\u044f\\u043b",
      action_user_input |-> "\\u043e\\u0442\\u0432\\u0435\\u0442",
      action_tokens |-> "\\u0442\\u043e\\u043a\\u0435\\u043d\\u044b",
      action_guard |-> "\\u043f\\u0435\\u0440\\u0435\\u043d\\u0430\\u043f\\u0440\\u0430\\u0432\\u043b\\u044f\\u044e"
  ]
]

\* obj[key] of an object literal: an own property, else a member inherited
\* from Object.prototype (a function, shown as the text it converts to),
\* else undefined, which like the empty string is falsy and modelled as ""
Inherited == {"toString", "valueOf"}

NativeFn(name) == "function " \o name \o "() { [native code] }"

Get(obj, key) ==
  IF key \in DOMAIN obj THEN obj[key]
  ELSE IF key \in Inherited THEN NativeFn(key)
  ELSE ""

\* t(key) with the global currentLang passed as lang
t(lang, key) ==
  LET own == IF lang \in DOMAIN I18N THEN Get(I18N[lang], key)
             ELSE IF lang \in Inherited /\ key \in Inherited
             THEN NativeFn(key)
             ELSE ""
      en == Get(I18N["en"], key)
  IN IF own # "" THEN own
     ELSE IF en # "" THEN en
     ELSE key

StatusKeys == {"running", "waiting_confirm", "waiting_user", "done",
               "stopped", "error", "queued"}

statusLabel(lang, value) ==
  IF value \in StatusKeys /\ t(lang, "status_" \o value) # ""
  THEN t(lang, "status_" \o value)
  ELSE value

ActionKeys == [navigate |-> "action_navigate", click |-> "action_click",
               type |-> "action_type", extract |-> "action_extract",
               snapshot |-> "action_snapshot", scroll |-> "action_scroll",
               wait |-> "action_wait",
               wait_for_network_idle |-> "action_wait",
               back |-> "action_back", forward |-> "action_forward",
               ask_user |-> "action_ask_user", finish |-> "action_finish",
               stop_task |-> "action_stop_task",
               take_screenshot |-> "action_take_screenshot",
               save_trace |-> "action_save_trace", none |-> "action_think",
               access |-> "action_access",
               loop_guard |-> "action_loop_guard",
               user_input |-> "action_user_input",
               tokens |-> "action_tokens", guard |-> "action_guard"]

actionLabel(lang, tool) ==
  IF tool \in DOMAIN ActionKeys THEN t(lang, ActionKeys[tool]) ELSE ""

\* the durations below 4000 ms that end in 50 and whose quotient ms / 1000,
\* as a double, lies below the decimal midpoint: toFixed(1) rounds the
\* double, so these go down; the other durations ending in 50 lie above the
\* midpoint or on it (1250, 1750, ...: exact doubles, where toFixed takes
\* the larger digit) and go up
BelowMidpoint == {1150, 1450, 1650, 1950, 2050, 2150, 2550, 2650, 3050,
                  3150, 3550, 3650}

\* (ms / 1000).toFixed(1) for an integer ms in 1000..3999
ToFixed1(ms) ==
  LET tenths == IF ms \in BelowMidpoint THEN ms \div 100
                ELSE (ms + 50) \div 100
  IN NumStr(tenths \div 10) \o "." \o Digit(tenths % 10)

\* mutant: the seconds are cut to one decimal, not rounded
formatDuration_truncates(ms) ==
  IF Len(ms) # 1 THEN ""
  ELSE IF ms[1] >= 1000
  THEN NumStr(ms[1] \div 1000) \o "." \o Digit((ms[1] \div 100) % 10) \o "s"
  ELSE NumStr(ms[1]) \o "ms"

\* ms is an optional JSON value: <<>> is absent, <<n>> is the number n and
\* <<type, text>> is a value of another type; only <<n>> passes
\* `typeof ms === 'number'`
formatDuration(ms) ==
  IF Len(ms) # 1 THEN ""
  ELSE IF ms[1] >= 1000 THEN ToFixed1(ms[1]) \o "s"
  ELSE NumStr(ms[1]) \o "ms"

\* ----- the page: every object the controller reads or writes
Page == [currentLang |-> currentLang, localStorage |-> localStorage,
         statusEl |-> statusEl, logEl |-> logEl, runBtn |-> runBtn,
         confirmBtn |-> confirmBtn, stopBtn |-> stopBtn,
         userReplyWrap |-> userReplyWrap, userReplyInput |-> userReplyInput,
         waitingForUserInput |-> waitingForUserInput, taskId |-> taskId,
         eventSource |-> eventSource, sources |-> sources,
         requests |-> requests, providerEl |-> providerEl,
         modelEl |-> modelEl, searchEngineEl |-> searchEngineEl,
         safeModeEl |-> safeModeEl, browserOnlyEl |-> browserOnlyEl,
         theme |-> theme, keyInput |-> keyInput, outputEl |-> outputEl]

\* the page after a handler has run
Becomes(q) ==
  /\ currentLang' = q.currentLang
  /\ localStorage' = q.localStorage
  /\ statusEl' = q.statusEl
  /\ logEl' = q.logEl
  /\ runBtn' = q.runBtn
  /\ confirmBtn' = q.confirmBtn
  /\ stopBtn' = q.stopBtn
  /\ userReplyWrap' = q.userReplyWrap
  /\ userReplyInput' = q.userReplyInput
  /\ waitingForUserInput' = q.waitingForUserInput
  /\ taskId' = q.taskId
  /\ eventSource' = q.eventSource
  /\ sources' = q.sources
  /\ requests' = q.requests
  /\ providerEl' = q.providerEl
  /\ modelEl' = q.modelEl
  /\ searchEngineEl' = q.searchEngineEl
  /\ safeModeEl' = q.safeModeEl
  /\ browserOnlyEl' = q.browserOnlyEl
  /\ theme' = q.theme
  /\ keyInput' = q.keyInput
  /\ outputEl' = q.outputEl

Ran(op, arg) == last' = [op |-> op, arg |-> arg]

\* ----- platform objects
\* EventSource.prototype.close behind `if (eventSource)`
closeSource(srcs, e) ==
  IF e # 0 THEN [srcs EXCEPT ![e].readyState = "closed"] ELSE srcs

\* fetch(): the request is on the wire, its promise pending
fetch(q, kind, id, body) ==
  [q EXCEPT !.requests =
     Append(@, [kind |-> kind, task |-> id, body |-> body,
                state |-> "pending"])]

\* alert(): a modal message; once dismissed it leaves nothing on the page
alert(q, text) == q

\* ----- helpers of the rich client
setStatus(q, text) == [q EXCEPT !.statusEl = text]

\* mutant: the newest line is put first
appendLog_prepends(q, line) == [q EXCEPT !.logEl = <<line>> \o @]

appendLog(q, line) == [q EXCEPT !.logEl = Append(@, line)]

resetUI(q) ==
  setStatus([q EXCEPT !.logEl = <<>>,
                      !.confirmBtn = TRUE,
                      !.stopBtn = TRUE,
                      !.runBtn = FALSE,
                      !.waitingForUserInput = FALSE,
                      !.userReplyWrap = TRUE,
                      !.userReplyInput = <<>>],
            t(q.currentLang, "status_idle"))

applyLanguage(q, lang) ==
  setStatus([q EXCEPT !.currentLang = lang,
                      !.localStorage = [@ EXCEPT !["ui_lang"] = <<lang>>]],
            t(lang, "status_idle"))

\* ----- settings of the rich client
ProviderOptions == <<"gemini", "openai", "ollama", "anthropic">>

SearchOptions == <<"google", "duckduckgo", "bing", "yandex">>

MODEL_OPTIONS ==
  [gemini |-> <<"gemini-2.0-flash-lite", "gemini-2.5-flash-lite">>,
   openai |-> <<"gpt-4.1-nano", "gpt-4.1-mini", "gpt-4.1">>,
   ollama |-> <<"qwen3:1.7b", "functiongemma:latest">>,
   anthropic |-> <<"claude-3-5-sonnet-latest", "claude-3-5-haiku-latest">>]

providerConfig ==
  [openai |-> [endpoint |-> "/providers/openai/models"],
   anthropic |-> [endpoint |-> "/providers/anthropic/models"],
   google |-> [endpoint |-> "/providers/gemini/models"]]

\* `llm_model_${provider}`
ModelKey(provider) == "llm_model_" \o provider

\* the keys the client reads or writes; "llm_model" is only read
LSKeys ==
  {"ui_lang", "ui_theme", "search_engine", "llm_provider", "llm_model",
   "safe_mode", "browser_only"}
    \cup {ModelKey(ProviderOptions[i]) : i \in DOMAIN ProviderOptions}

\* localStorage.getItem: <<>> is null
getItem(q, key) == IF key \in LSKeys THEN q.localStorage[key] ELSE <<>>

setItem(q, key, value) == [q EXCEPT !.localStorage[key] = <<value>>]

\* item || fallback
Or(item, fallback) ==
  IF item = <<>> \/ item[1] = "" THEN fallback ELSE item[1]

\* assignment to the value of a select: a value that is no option selects
\* nothing
selectValue(options, value) ==
  IF \E i \in DOMAIN options : options[i] = value THEN value ELSE ""

\* String(checkbox.checked)
BoolStr(b) == IF b THEN "true" ELSE "false"

applyTheme(q, name) ==
  setItem([q EXCEPT !.theme = IF name = "dark" THEN "dark" ELSE "light"],
          "ui_theme", name)

setModelOptions(q, provider) ==
  LET options == IF provider \in DOMAIN MODEL_OPTIONS
                 THEN MODEL_OPTIONS[provider] ELSE <<>>
      shown == IF options = <<>> THEN <<"">> ELSE options
  IN [q EXCEPT !.modelEl = [options |-> shown, value |-> shown[1]]]

\* applyLanguage and applyTheme write back the item they were given and no
\* other, so every item is read from the store as the page found it
loadSettings(q) ==
  LET store == q.localStorage
      storedProvider == Or(store["llm_provider"], "openai")
      storedModel == Or(getItem(q, ModelKey(storedProvider)), "")
      legacyModel == Or(store["llm_model"], "")
      options == setModelOptions(q, storedProvider).modelEl.options
      storedSafeMode == store["safe_mode"]
      storedBrowserOnly == store["browser_only"]
  IN [applyTheme(applyLanguage(q, Or(store["ui_lang"], "ru")),
                 Or(store["ui_theme"], "light"))
        EXCEPT !.searchEngineEl =
                 selectValue(SearchOptions,
                             Or(store["search_engine"], "google")),
               !.providerEl = selectValue(ProviderOptions, storedProvider),
               !.modelEl =
                 [options |-> options,
                  value |-> IF storedModel # "" THEN
                              selectValue(options, storedModel)
                            ELSE IF legacyModel # "" THEN
                              selectValue(options, legacyModel)
                            ELSE options[1]],
               !.safeModeEl = IF storedSafeMode # <<>>
                              THEN storedSafeMode[1] = "true" ELSE @,
               !.browserOnlyEl = IF storedBrowserOnly # <<>>
                                 THEN storedBrowserOnly[1] = "true" ELSE @]

\* change handlers of bindSettings; the element already holds the new value
searchEngineChange(q) == setItem(q, "search_engine", q.searchEngineEl)

providerChange(q) ==
  LET provider == q.providerEl
      q1 == setModelOptions(setItem(q, "llm_provider", provider), provider)
      storedModel == getItem(q1, ModelKey(provider))
  IN IF storedModel # <<>> /\ storedModel[1] # ""
     THEN [q1 EXCEPT !.modelEl.value =
             selectValue(q1.modelEl.options, storedModel[1])]
     ELSE q1

\* mutant: the model is stored under the key shared by all providers
modelChange_sharedKey(q) == setItem(q, "llm_model", q.modelEl.value)

modelChange(q) == setItem(q, ModelKey(q.providerEl), q.modelEl.value)

safeModeChange(q) == setItem(q, "safe_mode", BoolStr(q.safeModeEl))

browserOnlyChange(q) == setItem(q, "browser_only", BoolStr(q.browserOnlyEl))

\* mutant: the key of the last lookup is remembered in the store
fetchModels_remembersKey(q, provider) ==
  LET apiKey == Trim(q.keyInput[provider])
  IN IF apiKey = <<>>
     THEN [q EXCEPT !.outputEl[provider] = "Enter an API key."]
     ELSE fetch(setItem([q EXCEPT !.outputEl[provider] = "Loading..."],
                        "llm_model", Str(apiKey)),
                "models", 0, <<provider, Str(apiKey)>>)

\* fetchModels up to `await fetch`; the base URL input is left empty, so the
\* payload is {api_key}
fetchModels(q, provider) ==
  LET apiKey == Trim(q.keyInput[provider])
  IN IF apiKey = <<>>
     THEN [q EXCEPT !.outputEl[provider] = "Enter an API key."]
     ELSE fetch([q EXCEPT !.outputEl[provider] = "Loading..."],
                "models", 0, <<provider, Str(apiKey)>>)

\* fetchModels after `await fetch` resolved with resp
modelsResponse(q, r, resp) ==
  LET provider == q.requests[r].body[1]
      text == IF ~resp.ok
              THEN "Error: " \o (IF resp.detail # <<>> /\ resp.detail[1] # ""
                                 THEN resp.detail[1] ELSE resp.statusText)
              ELSE IF resp.models # <<>> THEN Join(resp.models, "\n")
              ELSE "No models returned."
  IN [q EXCEPT !.requests[r].state = "settled",
               !.outputEl[provider] = text]

\* fetchModels after `await fetch` rejected: the catch block
modelsRejected(q, r) ==
  [q EXCEPT !.requests[r].state = "settled",
            !.outputEl[q.requests[r].body[1]] = "Error: Failed to fetch"]

\* the document as index.php delivers it, before any script has run
Document ==
  [currentLang |-> "ru", localStorage |-> [k \in LSKeys |-> <<>>],
   statusEl |-> "Idle", logEl |-> <<>>, runBtn |-> FALSE,
   confirmBtn |-> TRUE, stopBtn |-> TRUE, userReplyWrap |-> TRUE,
   userReplyInput |-> <<>>, waitingForUserInput |-> FALSE, taskId |-> 0,
   eventSource |-> 0, sources |-> <<>>, requests |-> <<>>,
   providerEl |-> "gemini",
   modelEl |-> [options |-> MODEL_OPTIONS["gemini"],
                value |-> MODEL_OPTIONS["gemini"][1]],
   searchEngineEl |-> "google", safeModeEl |-> TRUE, browserOnlyEl |-> TRUE,
   theme |-> "light",
   keyInput |-> [p \in DOMAIN providerConfig |-> <<>>],
   outputEl |-> [p \in DOMAIN providerConfig |-> ""]]

\* mutant: the previous subscription is not closed
connectEvents_keepsPrevious(q, id) ==
  [q EXCEPT !.sources =
               Append(@, [task |-> id, readyState |-> "connecting"]),
            !.eventSource = Len(q.sources) + 1]

connectEvents(q, id) ==
  LET closed == closeSource(q.sources, q.eventSource)
  IN [q EXCEPT !.sources =
                  Append(closed, [task |-> id, readyState |-> "connecting"]),
               !.eventSource = Len(q.sources) + 1]

\* ----- stream listeners of the rich client (payload.data is d)
StepStr(o) == IF o = <<>> \/ o[1] = 0 THEN "" ELSE NumStr(o[1])

Terminal == {"done", "stopped", "error"}

\* mutant: the line replaces the log
logListener_replacesLog(q, d) ==
  [q EXCEPT !.logEl = <<"[" \o StepStr(d.step) \o "]">>]

logListener(q, d) ==
  LET lang == q.currentLang
      action == actionLabel(lang, OrEmpty(d.tool))
      duration == formatDuration(d.duration_ms)
      parts == (IF action # "" THEN <<action>> ELSE <<>>)
               \o (IF OrEmpty(d.tool) # "" THEN <<d.tool[1]>> ELSE <<>>)
               \o (IF OrEmpty(d.status) # "" THEN <<d.status[1]>> ELSE <<>>)
               \o (IF OrEmpty(d.reason) # "" THEN <<d.reason[1]>> ELSE <<>>)
               \o (IF duration # "" THEN <<"(" \o duration \o ")">> ELSE <<>>)
      message == <<"[" \o StepStr(d.step) \o "]", " ", Join(parts, " ")>>
      errorText == IF OrEmpty(d.error) # ""
                   THEN <<" | error: " \o d.error[1]>> ELSE <<>>
  IN appendLog(q, Str(Trim(message \o errorText)))

\* mutant: the reply gate of an earlier needs_user_input is left in place
needsConfirmationListener_keepsReply(q, d) ==
  LET lang == q.currentLang
      q1 == appendLog(q, t(lang, "log_confirm") \o ": " \o OrEmpty(d.summary))
  IN setStatus([q1 EXCEPT !.confirmBtn = FALSE,
                          !.stopBtn = FALSE],
               t(lang, "status_wait_confirm"))

needsConfirmationListener(q, d) ==
  LET lang == q.currentLang
      q1 == appendLog(q, t(lang, "log_confirm") \o ": " \o OrEmpty(d.summary))
  IN setStatus([q1 EXCEPT !.confirmBtn = FALSE,
                          !.stopBtn = FALSE,
                          !.waitingForUserInput = FALSE,
                          !.userReplyWrap = TRUE],
               t(lang, "status_wait_confirm"))

\* mutant: the reply is required but its input is not revealed
needsUserInputListener_keepsHidden(q, d) ==
  LET lang == q.currentLang
      q1 == appendLog(q, t(lang, "log_user_input") \o ": "
                         \o OrEmpty(d.question))
  IN setStatus([q1 EXCEPT !.confirmBtn = FALSE,
                          !.stopBtn = FALSE,
                          !.waitingForUserInput = TRUE],
               t(lang, "status_wait_user"))

needsUserInputListener(q, d) ==
  LET lang == q.currentLang
      q1 == appendLog(q, t(lang, "log_user_input") \o ": "
                         \o OrEmpty(d.question))
  IN setStatus([q1 EXCEPT !.confirmBtn = FALSE,
                          !.stopBtn = FALSE,
                          !.waitingForUserInput = TRUE,
                          !.userReplyWrap = FALSE],
               t(lang, "status_wait_user"))

resultListener(q, d) ==
  appendLog(q, t(q.currentLang, "log_result") \o ": " \o OrEmpty(d.result))

\* mutant: the terminal cleanup does not re-enable the run button
statusListener_runStaysDisabled(q, d) ==
  LET lang == q.currentLang
      q1 == setStatus(q, t(lang, "status_prefix") \o " "
                         \o statusLabel(lang, OrEmpty(d.status)))
  IN IF d.status # <<>> /\ d.status[1] \in Terminal
     THEN [q1 EXCEPT !.confirmBtn = TRUE,
                     !.stopBtn = TRUE,
                     !.waitingForUserInput = FALSE,
                     !.userReplyWrap = TRUE,
                     !.sources = closeSource(@, q.eventSource)]
     ELSE q1

\* mutant: the terminal cleanup leaves the subscription open
statusListener_keepsStream(q, d) ==
  LET lang == q.currentLang
      q1 == setStatus(q, t(lang, "status_prefix") \o " "
                         \o statusLabel(lang, OrEmpty(d.status)))
  IN IF d.status # <<>> /\ d.status[1] \in Terminal
     THEN [q1 EXCEPT !.confirmBtn = TRUE,
                     !.stopBtn = TRUE,
                     !.runBtn = FALSE,
                     !.waitingForUserInput = FALSE,
                     !.userReplyWrap = TRUE]
     ELSE q1

\* mutant: the cleanup runs for every status value
statusListener_alwaysCleansUp(q, d) ==
  LET lang == q.currentLang
      q1 == setStatus(q, t(lang, "status_prefix") \o " "
                         \o statusLabel(lang, OrEmpty(d.status)))
  IN [q1 EXCEPT !.confirmBtn = TRUE,
                !.stopBtn = TRUE,
                !.runBtn = FALSE,
                !.waitingForUserInput = FALSE,
                !.userReplyWrap = TRUE,
                !.sources = closeSource(@, q.eventSource)]

\* mutant: every status event hides the reply input
statusListener_hidesReply(q, d) ==
  LET lang == q.currentLang
      q1 == setStatus(q, t(lang, "status_prefix") \o " "
                         \o statusLabel(lang, OrEmpty(d.status)))
  IN IF d.status # <<>> /\ d.status[1] \in Terminal
     THEN [q1 EXCEPT !.confirmBtn = TRUE,
                     !.stopBtn = TRUE,
                     !.runBtn = FALSE,
                     !.waitingForUserInput = FALSE,
                     !.userReplyWrap = TRUE,
                     !.sources = closeSource(@, q.eventSource)]
     ELSE [q1 EXCEPT !.userReplyWrap = TRUE]

statusListener(q, d) ==
  LET lang == q.currentLang
      q1 == setStatus(q, t(lang, "status_prefix") \o " "
                         \o statusLabel(lang, OrEmpty(d.status)))
  IN IF d.status # <<>> /\ d.status[1] \in Terminal
     THEN [q1 EXCEPT !.confirmBtn = TRUE,
                     !.stopBtn = TRUE,
                     !.runBtn = FALSE,
                     !.waitingForUserInput = FALSE,
                     !.userReplyWrap = TRUE,
                     !.sources = closeSource(@, q.eventSource)]
     ELSE q1

\* mutant: the handler gives the subscription up
onerror_closes(q) ==
  [appendLog(q, t(q.currentLang, "log_event_error"))
     EXCEPT !.sources = closeSource(@, q.eventSource)]

onerror(q) == appendLog(q, t(q.currentLang, "log_event_error"))

\* ----- click handlers of the rich client
\* the promise of fetch() number r settles: the request is off the wire
\* mutant: the completion of a request enables its button again
settle_reenables(q, r) ==
  [q EXCEPT !.requests[r].state = "settled",
            !.confirmBtn = IF q.requests[r].kind = "confirm" THEN FALSE ELSE @,
            !.stopBtn = IF q.requests[r].kind = "stop" THEN FALSE ELSE @]

settle(q, r) == [q EXCEPT !.requests[r].state = "settled"]

\* mutant: the prompt is not trimmed before the emptiness test
runClick_untrimmed(q, p) ==
  LET lang == q.currentLang
  IN IF p = <<>>
     THEN alert(q, t(lang, "alert_enter_task"))
     ELSE fetch([setStatus(resetUI(q), t(lang, "status_starting"))
                   EXCEPT !.runBtn = TRUE],
                "create", 0, <<Str(p)>>)

\* mutant: the run button is left enabled while the request is in flight
runClick_leavesEnabled(q, p) ==
  LET lang == q.currentLang
      prompt == Trim(p)
  IN IF prompt = <<>>
     THEN alert(q, t(lang, "alert_enter_task"))
     ELSE fetch(setStatus(resetUI(q), t(lang, "status_starting")),
                "create", 0, <<Str(prompt)>>)

\* run click up to `await fetch`; p is promptEl.value
runClick(q, p) ==
  LET lang == q.currentLang
      prompt == Trim(p)
  IN IF prompt = <<>>
     THEN alert(q, t(lang, "alert_enter_task"))
     ELSE fetch([setStatus(resetUI(q), t(lang, "status_starting"))
                   EXCEPT !.runBtn = TRUE],
                "create", 0, <<Str(prompt)>>)

\* mutant: the stream is opened for the identifier held before the response
runResponse_staleId(q, r, resp) ==
  LET lang == q.currentLang
      q1 == settle(q, r)
  IN IF ~resp.ok /\ ~resp.json THEN q1
     ELSE IF ~resp.ok
     THEN [setStatus(appendLog(q1, t(lang, "log_failed_start") \o ": "
                                   \o (IF OrEmpty(resp.detail) # ""
                                       THEN resp.detail[1]
                                       ELSE resp.statusText)),
                     t(lang, "status_prefix") \o " " \o t(lang, "status_error"))
             EXCEPT !.runBtn = FALSE]
     ELSE [connectEvents([q1 EXCEPT !.stopBtn = FALSE], q.taskId)
             EXCEPT !.taskId = resp.task_id]

\* mutant: a successful response enables start again
runResponse_enablesRun(q, r, resp) ==
  LET lang == q.currentLang
      q1 == settle(q, r)
  IN IF ~resp.ok /\ ~resp.json THEN q1
     ELSE IF ~resp.ok
     THEN [setStatus(appendLog(q1, t(lang, "log_failed_start") \o ": "
                                   \o (IF OrEmpty(resp.detail) # ""
                                       THEN resp.detail[1]
                                       ELSE resp.statusText)),
                     t(lang, "status_prefix") \o " " \o t(lang, "status_error"))
             EXCEPT !.runBtn = FALSE]
     ELSE connectEvents([q1 EXCEPT !.taskId = resp.task_id,
                                   !.stopBtn = FALSE, !.runBtn = FALSE],
                        resp.task_id)

\* run click after `await fetch`, for the response resp to request r; the
\* handler writes nothing between `await fetch` and `await response.json()`,
\* so both awaits are one step
runResponse(q, r, resp) ==
  LET lang == q.currentLang
      q1 == settle(q, r)
  IN IF ~resp.ok /\ ~resp.json THEN q1
     ELSE IF ~resp.ok
     THEN [setStatus(appendLog(q1, t(lang, "log_failed_start") \o ": "
                                   \o (IF OrEmpty(resp.detail) # ""
                                       THEN resp.detail[1]
                                       ELSE resp.statusText)),
                     t(lang, "status_prefix") \o " " \o t(lang, "status_error"))
             EXCEPT !.runBtn = FALSE]
     ELSE connectEvents([q1 EXCEPT !.taskId = resp.task_id,
                                   !.stopBtn = FALSE],
                        resp.task_id)

\* a fetch() whose promise rejects inside an async handler: the handler
\* ends with an unhandled rejection, the page is not written
fetchRejected(q, r) == settle(q, r)

\* mutant: the button is not re-enabled when the reply is missing
confirmClick_staysDisabled(q) ==
  IF q.taskId = 0 THEN q
  ELSE LET q1 == setStatus([q EXCEPT !.confirmBtn = TRUE], "Continuing...")
           reply == Trim(q.userReplyInput)
       IN IF q.waitingForUserInput
          THEN IF reply = <<>>
               THEN appendLog(q1, t(q.currentLang, "alert_enter_reply"))
               ELSE fetch([q1 EXCEPT !.userReplyInput = <<>>],
                          "confirm", q.taskId, <<Str(reply)>>)
          ELSE fetch(q1, "confirm", q.taskId, <<>>)

\* mutant: the reply is sent as typed, without trim()
confirmClick_untrimmed(q) ==
  IF q.taskId = 0 THEN q
  ELSE LET q1 == setStatus([q EXCEPT !.confirmBtn = TRUE], "Continuing...")
           reply == q.userReplyInput
       IN IF q.waitingForUserInput
          THEN IF Trim(reply) = <<>>
               THEN [appendLog(q1, t(q.currentLang, "alert_enter_reply"))
                       EXCEPT !.confirmBtn = FALSE]
               ELSE fetch([q1 EXCEPT !.userReplyInput = <<>>],
                          "confirm", q.taskId, <<Str(reply)>>)
          ELSE fetch(q1, "confirm", q.taskId, <<>>)

\* mutant: whatever is in the reply input is sent, required or not
confirmClick_ignoresGate(q) ==
  IF q.taskId = 0 THEN q
  ELSE LET q1 == setStatus([q EXCEPT !.confirmBtn = TRUE], "Continuing...")
           reply == Trim(q.userReplyInput)
       IN IF reply = <<>>
          THEN IF q.waitingForUserInput
               THEN [appendLog(q1, t(q.currentLang, "alert_enter_reply"))
                       EXCEPT !.confirmBtn = FALSE]
               ELSE fetch(q1, "confirm", q.taskId, <<>>)
          ELSE fetch([q1 EXCEPT !.userReplyInput = <<>>],
                     "confirm", q.taskId, <<Str(reply)>>)

\* mutant: the button is left enabled while the request is issued
confirmClick_leavesEnabled(q) ==
  IF q.taskId = 0 THEN q
  ELSE LET q1 == setStatus(q, "Continuing...")
           reply == Trim(q.userReplyInput)
       IN IF q.waitingForUserInput
          THEN IF reply = <<>>
               THEN [appendLog(q1, t(q.currentLang, "alert_enter_reply"))
                       EXCEPT !.confirmBtn = FALSE]
               ELSE fetch([q1 EXCEPT !.userReplyInput = <<>>],
                          "confirm", q.taskId, <<Str(reply)>>)
          ELSE fetch(q1, "confirm", q.taskId, <<>>)

confirmClick(q) ==
  IF q.taskId = 0 THEN q
  ELSE LET q1 == setStatus([q EXCEPT !.confirmBtn = TRUE], "Continuing...")
           reply == Trim(q.userReplyInput)
       IN IF q.waitingForUserInput
          THEN IF reply = <<>>
               THEN [appendLog(q1, t(q.currentLang, "alert_enter_reply"))
                       EXCEPT !.confirmBtn = FALSE]
               ELSE fetch([q1 EXCEPT !.userReplyInput = <<>>],
                          "confirm", q.taskId, <<Str(reply)>>)
          ELSE fetch(q1, "confirm", q.taskId, <<>>)

\* mutant: stop targets the task of the first subscription
stopClick_firstTask(q) ==
  IF q.taskId = 0 THEN q
  ELSE fetch(setStatus([q EXCEPT !.stopBtn = TRUE], "Stopping..."),
             "stop", q.sources[1].task, <<>>)

stopClick(q) ==
  IF q.taskId = 0 THEN q
  ELSE fetch(setStatus([q EXCEPT !.stopBtn = TRUE], "Stopping..."),
             "stop", q.taskId, <<>>)

\* ----- inputs
Prompts == {<<>>, <<" ">>, <<" ", "open wikipedia.org">>}
Replies == {<<>>, <<" ">>, <<"yes", " ">>}
NoFields == [step |-> <<>>, tool |-> <<>>, status |-> <<>>, reason |-> <<>>,
             duration_ms |-> <<>>, error |-> <<>>]
LogPayloads == {[NoFields EXCEPT !.step = <<1>>, !.tool = <<"navigate">>,
                                 !.status = <<"ok">>,
                                 !.duration_ms = <<1200>>]}
Summaries == {<<"Delete repository">>}
Questions == {<<"Which account?">>}
Results == {<<"42">>}
Statuses == {<<>>, <<"running">>, <<"waiting_confirm">>, <<"done">>,
             <<"stopped">>, <<"error">>, <<"paused">>}
\* responses of POST /tasks to request r: success, a rejection with a JSON
\* body (with and without detail), and a failure whose body is not JSON
\* (response.json() rejects and the handler ends there)
Responses(r) ==
  {[ok |-> TRUE, json |-> TRUE, task_id |-> r, detail |-> <<>>,
    statusText |-> "OK"],
   [ok |-> FALSE, json |-> TRUE, task_id |-> 0,
    detail |-> <<"Model not available">>, statusText |-> "Bad Request"],
   [ok |-> FALSE, json |-> TRUE, task_id |-> 0, detail |-> <<>>,
    statusText |-> "Bad Request"],
   [ok |-> FALSE, json |-> FALSE, task_id |-> 0, detail |-> <<>>,
    statusText |-> "Internal Server Error"]}

\* ----- initial state: the page after loadSettings(); bindSettings(); resetUI()
\* the page loaded over a store
Load(store) == resetUI(loadSettings([Document EXCEPT !.localStorage = store]))

\* the page of a visitor whose stored language is lang
InitPage(lang) == Load([Document.localStorage EXCEPT !["ui_lang"] = <<lang>>])

Is(q) ==
  /\ currentLang = q.currentLang
  /\ localStorage = q.localStorage
  /\ statusEl = q.statusEl
  /\ logEl = q.logEl
  /\ runBtn = q.runBtn
  /\ confirmBtn = q.confirmBtn
  /\ stopBtn = q.stopBtn
  /\ userReplyWrap = q.userReplyWrap
  /\ userReplyInput = q.userReplyInput
  /\ waitingForUserInput = q.waitingForUserInput
  /\ taskId = q.taskId
  /\ eventSource = q.eventSource
  /\ sources = q.sources
  /\ requests = q.requests
  /\ providerEl = q.providerEl
  /\ modelEl = q.modelEl
  /\ searchEngineEl = q.searchEngineEl
  /\ safeModeEl = q.safeModeEl
  /\ browserOnlyEl = q.browserOnlyEl
  /\ theme = q.theme
  /\ keyInput = q.keyInput
  /\ outputEl = q.outputEl

Init ==
  /\ variant = "rich"
  /\ \E lang \in {"ru", "en"} : Is(InitPage(lang))
  /\ last = [op |-> "load", arg |-> <<>>]
  /\ scope = "session" /\ gates = 0

\* ----- bounds on what one behaviour explores
Creates(q) == Cardinality({r \in DOMAIN q.requests : q.requests[r].kind = "create"})

Stored(q) == {k \in LSKeys : q.localStorage[k] # <<>>}

\* a "session" behaviour runs up to MaxTasks tasks with MaxRequests requests
\* in all; a "clicks" behaviour runs one task with MaxRequests confirm and
\* stop requests; a "tasks" behaviour runs up to MaxTasks tasks with
\* MaxRequests + 1 requests in all; a "lookup" behaviour issues MaxRequests requests, one
\* task among them, and its stored keys and its requests number MaxEffects
\* together
Bounded(q) ==
  /\ Len(q.logEl) <= MaxLog
  /\ IF scope = "clicks"
     THEN Len(q.requests) <= MaxRequests + 1 /\ Creates(q) <= 1
     ELSE IF scope = "tasks"
     THEN Len(q.requests) <= MaxRequests + 1 /\ Creates(q) <= MaxTasks
     ELSE IF scope = "lookup"
     THEN /\ Len(q.requests) <= MaxRequests /\ Creates(q) <= 1
          /\ Cardinality(Stored(q)) + Len(q.requests) <= MaxEffects
     ELSE Len(q.requests) <= MaxRequests /\ Creates(q) <= MaxTasks

GateOps == {"needs_confirmation", "needs_user_input"}

\* the count of gate events since the task was created; it is kept in
\* "clicks" behaviours and stops at MaxRequests, which no count of requests
\* of one task exceeds there
Counted(op, arg) ==
  gates' = IF scope # "clicks" THEN gates
           ELSE IF op \in GateOps
           THEN (IF gates < MaxRequests THEN gates + 1 ELSE gates)
           ELSE IF op = "created" /\ arg[1] = "ok" THEN 0
           ELSE gates

Step(q, op, arg) ==
  /\ Bounded(q) /\ Becomes(q) /\ Ran(op, arg) /\ Counted(op, arg)
  /\ UNCHANGED <<variant, scope>>

Live(s) == s \in DOMAIN sources /\ sources[s].readyState = "open"

\* subscriptions that are not closed
OpenSources == {s \in DOMAIN sources : sources[s].readyState # "closed"}

\* how a response to POST /tasks is recorded in `last`
Created(resp) ==
  IF ~resp.ok
  THEN <<"rejected", IF resp.json THEN "json" ELSE "not_json">>
  ELSE IF eventSource \in OpenSources THEN <<"ok", "replaced">>
  ELSE <<"ok", "first">>

\* ----- actions of the rich client
LogEvent ==
  \E s \in DOMAIN sources, d \in LogPayloads :
    /\ variant = "rich" /\ Live(s)
    /\ Step(logListener(Page, d), "log", <<>>)

NeedsConfirmationEvent ==
  \E s \in DOMAIN sources, summary \in Summaries :
    /\ variant = "rich" /\ Live(s)
    /\ Step(needsConfirmationListener(Page, [summary |-> summary]),
            "needs_confirmation", <<>>)

NeedsUserInputEvent ==
  \E s \in DOMAIN sources, question \in Questions :
    /\ variant = "rich" /\ Live(s)
    /\ Step(needsUserInputListener(Page, [question |-> question]),
            "needs_user_input", <<>>)

ResultEvent ==
  \E s \in DOMAIN sources, result \in Results :
    /\ variant = "rich" /\ Live(s)
    /\ Step(resultListener(Page, [result |-> result]), "result", <<>>)

StatusEvent ==
  \E s \in DOMAIN sources, status \in Statuses :
    /\ variant = "rich" /\ Live(s)
    /\ Step(statusListener(Page, [status |-> status]), "status", status)

\* the browser finishes connecting a subscription
StreamOpen ==
  \E s \in DOMAIN sources :
    /\ sources[s].readyState = "connecting"
    /\ Step([Page EXCEPT !.sources[s].readyState = "open"], "open", <<>>)

\* the transport fails: the browser retries or gives up, then fires onerror
StreamError ==
  \E s \in DOMAIN sources, next \in {"connecting", "closed"} :
    /\ variant = "rich"
    /\ sources[s].readyState \in {"connecting", "open"}
    /\ Step(onerror([Page EXCEPT !.sources[s].readyState = next]),
            "onerror", <<next>>)

RunClick ==
  \E p \in Prompts :
    /\ variant = "rich" /\ ~runBtn
    /\ Step(runClick(Page, p), "run",
            IF Trim(p) = <<>> THEN <<"empty">> ELSE <<"sent">>)

RunResponse ==
  \E r \in DOMAIN requests :
    /\ variant = "rich"
    /\ requests[r].kind = "create" /\ requests[r].state = "pending"
    /\ \E resp \in Responses(r) :
         Step(runResponse(Page, r, resp), "created", Created(resp))

ConfirmClick ==
  /\ variant = "rich" /\ ~confirmBtn
  /\ Step(confirmClick(Page), "confirm",
          IF taskId = 0 THEN <<"no_task">>
          ELSE IF waitingForUserInput /\ Trim(userReplyInput) = <<>>
          THEN <<"missing_reply">> ELSE <<"sent">>)

StopClick ==
  /\ variant = "rich" /\ ~stopBtn
  /\ Step(stopClick(Page), "stop",
          IF taskId = 0 THEN <<"no_task">> ELSE <<"sent">>)

\* a pending fetch() resolves with a response
FetchResolved ==
  \E r \in DOMAIN requests :
    /\ requests[r].kind \in {"confirm", "stop"}
    /\ requests[r].state = "pending"
    /\ Step(settle(Page, r), "resolved", <<requests[r].kind>>)

\* a pending fetch() of a task handler rejects (network failure)
FetchRejected ==
  \E r \in DOMAIN requests :
    /\ requests[r].kind # "models"
    /\ requests[r].state = "pending"
    /\ Step(fetchRejected(Page, r), "rejected", <<requests[r].kind>>)

\* the user edits the reply input
TypeReply ==
  \E v \in Replies :
    /\ variant = "rich" /\ ~userReplyWrap
    /\ v # userReplyInput
    /\ Step([Page EXCEPT !.userReplyInput = v], "type", <<>>)

\* mutant: the toggle always switches to English
langToggleClick_alwaysEn(q) == applyLanguage(q, "en")

langToggleClick(q) ==
  applyLanguage(q, IF q.currentLang = "ru" THEN "en" ELSE "ru")

\* `last` keeps the language the toggle switched from
LangToggle ==
  /\ variant = "rich"
  /\ Step(langToggleClick(Page), "lang", <<currentLang>>)

Next ==
  \/ LogEvent
  \/ NeedsConfirmationEvent
  \/ NeedsUserInputEvent
  \/ ResultEvent
  \/ StatusEvent
  \/ StreamOpen
  \/ StreamError
  \/ RunClick
  \/ RunResponse
  \/ ConfirmClick
  \/ StopClick
  \/ FetchResolved
  \/ FetchRejected
  \/ TypeReply

Spec == Init /\ [][Next]_vars

\* an event whose data is not JSON: JSON.parse(event.data), the first
\* statement of every listener, throws, and the listener ends there
EventKinds == {"log", "needs_confirmation", "needs_user_input", "result",
               "status"}

parseError(q) == q

MalformedEvent ==
  \E s \in DOMAIN sources, kind \in EventKinds :
    /\ variant = "rich" /\ Live(s)
    /\ Step(parseError(Page), "malformed", <<kind>>)

\* the controller on a stream that also delivers malformed events
NextWire == Next \/ MalformedEvent

\* an event whose kind has no listener: connectEvents registers listeners
\* for the kinds of EventKinds and sets no onmessage, so nothing runs
UnknownKinds == {"heartbeat", "message"}

\* mutant: an event without a listener is logged
unlistened_logs(q, kind) == [q EXCEPT !.logEl = Append(@, kind)]

unlistened(q, kind) == q

UnknownEvent ==
  \E s \in DOMAIN sources, kind \in UnknownKinds :
    /\ variant = "rich" /\ Live(s)
    /\ Step(unlistened(Page, kind), "unknown", <<kind>>)

\* the listeners and the clicks; transport failures, rejected requests and
\* result events are left to Spec
NextKinds ==
  \/ LogEvent
  \/ NeedsConfirmationEvent
  \/ NeedsUserInputEvent
  \/ StatusEvent
  \/ UnknownEvent
  \/ StreamOpen
  \/ RunClick
  \/ RunResponse
  \/ ConfirmClick
  \/ StopClick
  \/ FetchResolved

SpecKinds == Init /\ [][NextKinds]_vars

SpecWire == Init /\ [][NextWire]_vars

\* the controller on a stream that also reports the statuses queued and
\* waiting_user; log and result events are left to Spec
OtherStatuses == {<<"queued">>, <<"waiting_user">>}

OtherStatusEvent ==
  \E s \in DOMAIN sources, status \in OtherStatuses :
    /\ variant = "rich" /\ Live(s)
    /\ Step(statusListener(Page, [status |-> status]), "status", status)

\* the handlers that change what a status event must leave alone
NextStatus ==
  \/ NeedsConfirmationEvent
  \/ NeedsUserInputEvent
  \/ StatusEvent
  \/ OtherStatusEvent
  \/ StreamOpen
  \/ StreamError
  \/ RunClick
  \/ RunResponse
  \/ ConfirmClick
  \/ StopClick
  \/ FetchResolved
  \/ FetchRejected
  \/ TypeReply

SpecStatus == Init /\ [][NextStatus]_vars

\* confirm and stop over several tasks: the gate events, the status events
\* and the clicks, with room for a request to a second task
InitTasks ==
  /\ variant = "rich"
  /\ \E lang \in {"ru", "en"} : Is(InitPage(lang))
  /\ last = [op |-> "load", arg |-> <<>>]
  /\ scope = "tasks" /\ gates = 0

NextTasks ==
  \/ NeedsConfirmationEvent
  \/ StatusEvent
  \/ StreamOpen
  \/ RunClick
  \/ RunResponse
  \/ ConfirmClick
  \/ StopClick
  \/ FetchResolved

SpecTasks == InitTasks /\ [][NextTasks]_vars

\* a session whose requests are answered and whose streams deliver: a
\* transport failure is followed by a reconnect, every pending create is
\* answered, every connecting stream opens, and a stream that is open again
\* and again delivers a terminal status
TerminalStatusEvent ==
  \E s \in DOMAIN sources, status \in Statuses :
    /\ variant = "rich" /\ Live(s)
    /\ status # <<>> /\ status[1] \in Terminal
    /\ Step(statusListener(Page, [status |-> status]), "status", status)

StreamRetry ==
  \E s \in DOMAIN sources :
    /\ variant = "rich"
    /\ sources[s].readyState \in {"connecting", "open"}
    /\ Step(onerror([Page EXCEPT !.sources[s].readyState = "connecting"]),
            "onerror", <<"connecting">>)

\* a pending confirm or stop request fails; a create request is answered
ControlRejected ==
  \E r \in DOMAIN requests :
    /\ requests[r].kind \in {"confirm", "stop"}
    /\ requests[r].state = "pending"
    /\ Step(fetchRejected(Page, r), "rejected", <<requests[r].kind>>)

NextLive ==
  \/ NeedsConfirmationEvent
  \/ StatusEvent
  \/ StreamOpen
  \/ StreamRetry
  \/ RunClick
  \/ RunResponse
  \/ ConfirmClick
  \/ StopClick
  \/ FetchResolved
  \/ ControlRejected

SpecLive ==
  /\ Init
  /\ [][NextLive]_vars
  /\ WF_vars(RunResponse)
  /\ WF_vars(StreamOpen)
  /\ SF_vars(TerminalStatusEvent)

\* the log listener on events that carry a duration only
Durations ==
  {<<ms>> : ms \in 0..MaxDuration} \cup {<<>>, <<"string", "1200">>,
                                         <<"object", "null">>}

InitDuration ==
  /\ variant = "rich"
  /\ Is(InitPage("en"))
  /\ \E ms \in Durations : last = [op |-> "duration", arg |-> ms]
  /\ scope = "session" /\ gates = 0

DurationLogEvent ==
  /\ last.op = "duration"
  /\ Step(logListener(Page, [NoFields EXCEPT !.duration_ms = last.arg]),
          "logged", last.arg)

SpecDuration == InitDuration /\ [][DurationLogEvent]_vars

\* t() on its own: the page was loaded with a stored language tag, and a key
\* waits in `last` to be resolved
LangTags == {"en", "ru", "de", "toString"}

TextKeys == DOMAIN I18N["en"] \cup {"no_such_key", "toString"}

InitText ==
  /\ variant = "rich"
  /\ \E lang \in LangTags : Is(InitPage(lang))
  /\ \E key \in TextKeys : last = [op |-> "key", arg |-> <<key>>]
  /\ scope = "session" /\ gates = 0

ResolveText ==
  /\ last.op = "key"
  /\ Step(Page, "t", <<last.arg[1], t(currentLang, last.arg[1])>>)

SpecText == InitText /\ [][ResolveText]_vars

\* one task of the rich client and the clicks on its confirm and stop buttons
InitClicks ==
  /\ variant = "rich"
  /\ \E lang \in {"ru", "en"} : Is(InitPage(lang))
  /\ last = [op |-> "load", arg |-> <<>>]
  /\ scope = "clicks" /\ gates = 0

SpecClicks == InitClicks /\ [][Next]_vars

\* the controller together with the language toggle of the settings panel
NextLang == Next \/ LangToggle

SpecLang == Init /\ [][NextLang]_vars

\* ----- the base client (app.js lines 1-306): no localization, no reply
\* input, and the run button is never disabled
resetUIBase(q) ==
  setStatus([q EXCEPT !.logEl = <<>>,
                      !.confirmBtn = TRUE,
                      !.stopBtn = TRUE],
            "Idle")

logListenerBase(q, d) ==
  appendLog(q, Str(Trim(<<"[" \o StepStr(d.step) \o "]", " ",
                          OrEmpty(d.tool), " ", OrEmpty(d.status), " ",
                          OrEmpty(d.reason)>>)))

needsConfirmationListenerBase(q, d) ==
  setStatus([appendLog(q, "CONFIRM REQUIRED: " \o OrEmpty(d.summary))
               EXCEPT !.confirmBtn = FALSE, !.stopBtn = FALSE],
            "Waiting for confirmation")

needsUserInputListenerBase(q, d) ==
  setStatus([appendLog(q, "USER INPUT NEEDED: " \o OrEmpty(d.question))
               EXCEPT !.confirmBtn = FALSE, !.stopBtn = FALSE],
            "Waiting for user input")

resultListenerBase(q, d) == appendLog(q, "RESULT: " \o OrEmpty(d.result))

statusListenerBase(q, d) ==
  LET q1 == setStatus(q, "Status: " \o OrEmpty(d.status))
  IN IF d.status # <<>> /\ d.status[1] \in Terminal
     THEN [q1 EXCEPT !.confirmBtn = TRUE,
                     !.stopBtn = TRUE,
                     !.sources = closeSource(@, q.eventSource)]
     ELSE q1

onerrorBase(q) == appendLog(q, "Event stream error or closed.")

runClickBase(q, p) ==
  LET prompt == Trim(p)
  IN IF prompt = <<>>
     THEN alert(q, "Enter a task prompt.")
     ELSE fetch(setStatus(resetUIBase(q), "Starting task..."),
                "create", 0, <<Str(prompt)>>)

runResponseBase(q, r, resp) ==
  LET q1 == settle(q, r)
  IN IF ~resp.ok /\ ~resp.json THEN q1
     ELSE IF ~resp.ok
     THEN setStatus(appendLog(q1, "Failed to start: "
                                  \o (IF OrEmpty(resp.detail) # ""
                                      THEN resp.detail[1]
                                      ELSE resp.statusText)),
                    "Error")
     ELSE connectEvents([q1 EXCEPT !.taskId = resp.task_id,
                                   !.stopBtn = FALSE],
                        resp.task_id)

confirmClickBase(q) ==
  IF q.taskId = 0 THEN q
  ELSE fetch(setStatus([q EXCEPT !.confirmBtn = TRUE], "Continuing..."),
             "confirm", q.taskId, <<>>)

\* the page of the base client after loadSettings(); bindSettings(); resetUI()
InitPageBase ==
  resetUIBase(
    [Document EXCEPT !.currentLang = "en",
                     !.localStorage["ui_theme"] = <<"light">>])

InitBase ==
  /\ variant = "base"
  /\ Is(InitPageBase)
  /\ last = [op |-> "load", arg |-> <<>>]
  /\ scope = "session" /\ gates = 0

LogEventBase ==
  \E s \in DOMAIN sources, d \in LogPayloads :
    /\ variant = "base" /\ Live(s)
    /\ Step(logListenerBase(Page, d), "log", <<>>)

NeedsConfirmationEventBase ==
  \E s \in DOMAIN sources, summary \in Summaries :
    /\ variant = "base" /\ Live(s)
    /\ Step(needsConfirmationListenerBase(Page, [summary |-> summary]),
            "needs_confirmation", <<>>)

NeedsUserInputEventBase ==
  \E s \in DOMAIN sources, question \in Questions :
    /\ variant = "base" /\ Live(s)
    /\ Step(needsUserInputListenerBase(Page, [question |-> question]),
            "needs_user_input", <<>>)

ResultEventBase ==
  \E s \in DOMAIN sources, result \in Results :
    /\ variant = "base" /\ Live(s)
    /\ Step(resultListenerBase(Page, [result |-> result]), "result", <<>>)

StatusEventBase ==
  \E s \in DOMAIN sources, status \in Statuses :
    /\ variant = "base" /\ Live(s)
    /\ Step(statusListenerBase(Page, [status |-> status]), "status", status)

StreamErrorBase ==
  \E s \in DOMAIN sources, next \in {"connecting", "closed"} :
    /\ variant = "base"
    /\ sources[s].readyState \in {"connecting", "open"}
    /\ Step(onerrorBase([Page EXCEPT !.sources[s].readyState = next]),
            "onerror", <<next>>)

RunClickBase ==
  \E p \in Prompts :
    /\ variant = "base" /\ ~runBtn
    /\ Step(runClickBase(Page, p), "run",
            IF Trim(p) = <<>> THEN <<"empty">> ELSE <<"sent">>)

RunResponseBase ==
  \E r \in DOMAIN requests :
    /\ variant = "base"
    /\ requests[r].kind = "create" /\ requests[r].state = "pending"
    /\ \E resp \in Responses(r) :
         Step(runResponseBase(Page, r, resp), "created", Created(resp))

ConfirmClickBase ==
  /\ variant = "base" /\ ~confirmBtn
  /\ Step(confirmClickBase(Page), "confirm",
          IF taskId = 0 THEN <<"no_task">> ELSE <<"sent">>)

StopClickBase ==
  /\ variant = "base" /\ ~stopBtn
  /\ Step(stopClick(Page), "stop",
          IF taskId = 0 THEN <<"no_task">> ELSE <<"sent">>)

NextBase ==
  \/ LogEventBase
  \/ NeedsConfirmationEventBase
  \/ NeedsUserInputEventBase
  \/ ResultEventBase
  \/ StatusEventBase
  \/ StreamOpen
  \/ StreamErrorBase
  \/ RunClickBase
  \/ RunResponseBase
  \/ ConfirmClickBase
  \/ StopClickBase
  \/ FetchResolved
  \/ FetchRejected

SpecBase == InitBase /\ [][NextBase]_vars

\* either client
InitAll == Init \/ InitBase

NextAll == Next \/ NextBase

SpecAll == InitAll /\ [][NextAll]_vars

\* ======================= properties =======================
\* what the last handler was
TerminalStatusRan ==
  last.op = "status" /\ last.arg # <<>> /\ last.arg[1] \in Terminal

StreamOps == {"log", "needs_confirmation", "needs_user_input", "result",
              "status", "onerror"}

\* the step issues exactly one request, and it is a confirm request
OneConfirmSent ==
  /\ Len(requests') = Len(requests) + 1
  /\ SubSeq(requests', 1, Len(requests)) = requests
  /\ requests'[Len(requests')].kind = "confirm"
  /\ requests'[Len(requests')].task = taskId
  /\ requests'[Len(requests')].state = "pending"

\* C1: right after a status event with value done, stopped or error has been
\* processed, confirm and stop are disabled and run (start) is enabled,
\* whatever events and user actions came before.
C1_TerminalControls ==
  TerminalStatusRan => confirmBtn /\ stopBtn /\ ~runBtn

\* C1 witness: a task was started and stopped by the user after stream
\* events were logged, and the status event `stopped` has just been processed.
C1_Witness ==
  /\ last = [op |-> "status", arg |-> <<"stopped">>]
  /\ Len(requests) = 2 /\ requests[2].kind = "stop"
  /\ logEl # <<>>
  /\ confirmBtn /\ stopBtn /\ ~runBtn

\* C2: at most one stream subscription is open, and it is the one the
\* controller holds in eventSource (none is leaked); after a successful start
\* exactly one subscription is open, the new one, also when the previous
\* subscription was still open at that moment.
C2_SingleSubscription ==
  /\ Cardinality(OpenSources) <= 1
  /\ OpenSources \subseteq {eventSource}
  /\ (last.op = "created" /\ last.arg[1] = "ok")
       => OpenSources = {Len(sources)} /\ eventSource = Len(sources)

\* C2 witness: a start succeeded while the previous subscription was open;
\* the previous one is closed and only the new one is open.
C2_Witness ==
  /\ last = [op |-> "created", arg |-> <<"ok", "replaced">>]
  /\ Len(sources) = 2
  /\ sources[1].readyState = "closed"
  /\ OpenSources = {2}

\* C3: processing a terminal status event closes the subscription, sets
\* waitingForUserInput to false and hides the reply input; while every
\* subscription is closed no stream event is processed; and closing an
\* already closed subscription when the next start connects changes nothing
\* of it.
C3_TerminalClosesStream ==
  /\ [](TerminalStatusRan =>
          /\ eventSource # 0
          /\ sources[eventSource].readyState = "closed"
          /\ ~waitingForUserInput
          /\ userReplyWrap)
  /\ [][OpenSources = {} => last'.op \notin StreamOps]_vars
  /\ [][(last'.op = "created" /\ last'.arg[1] = "ok" /\ eventSource # 0
          /\ sources[eventSource].readyState = "closed")
        => /\ sources'[eventSource] = sources[eventSource]
           /\ Len(sources') = Len(sources) + 1]_vars

\* C3 witness: the task was waiting for a reply (the last logged line is the
\* user-input gate) when the terminal status arrived.
C3_Witness ==
  /\ TerminalStatusRan
  /\ logEl # <<>>
  /\ logEl[Len(logEl)] = t(currentLang, "log_user_input") \o ": Which account?"
  /\ sources[eventSource].readyState = "closed"
  /\ ~waitingForUserInput /\ userReplyWrap

\* C4: a run click with an empty or whitespace-only prompt issues no request
\* and leaves the status, the log, the controls and the subscription as they
\* were.
C4_EmptyPromptNoEffect ==
  [][(last'.op = "run" /\ last'.arg = <<"empty">>)
     => UNCHANGED <<requests, statusEl, logEl, runBtn, confirmBtn, stopBtn,
                    userReplyWrap, userReplyInput, waitingForUserInput,
                    taskId, eventSource, sources>>]_vars

\* C4 witness: the empty prompt was submitted on a page that already shows
\* the log of an earlier task.
C4_Witness ==
  /\ variant = "rich"
  /\ last = [op |-> "run", arg |-> <<"empty">>]
  /\ logEl # <<>> /\ requests # <<>> /\ taskId # 0

\* C5: when a reply is required, a confirm click with an empty reply issues
\* no request, appends the missing-reply message to the log and leaves the
\* confirm button enabled.
C5_MissingReplyRejected ==
  [][(last'.op = "confirm" /\ last'.arg = <<"missing_reply">>)
     => /\ requests' = requests
        /\ logEl' = Append(logEl, t(currentLang, "alert_enter_reply"))
        /\ ~confirmBtn']_vars

\* C5 witness: the confirm click was rejected with the reply input empty.
C5_Witness ==
  /\ last = [op |-> "confirm", arg |-> <<"missing_reply">>]
  /\ waitingForUserInput /\ userReplyInput = <<>>
  /\ Len(requests) = 1
  /\ ~confirmBtn

\* C6 as stated: when a reply is required, a confirm click with a non-empty
\* reply text issues exactly one confirm request for the current task, whose
\* response field is exactly that text.
C6_AsStated ==
  [][(last'.op = "confirm" /\ waitingForUserInput /\ userReplyInput # <<>>)
     => /\ OneConfirmSent
        /\ requests'[Len(requests')].body = <<Str(userReplyInput)>>]_vars

\* C6 amended: when a reply is required, a confirm click with a reply that is
\* non-empty after trimming issues exactly one confirm request for the
\* current task, whose response field is the trimmed reply.
C6_TrimmedReplySent ==
  [][(last'.op = "confirm" /\ waitingForUserInput
       /\ Trim(userReplyInput) # <<>>)
     => /\ OneConfirmSent
        /\ requests'[Len(requests')].body = <<Str(Trim(userReplyInput))>>]_vars

\* C6 witness: the confirm request carrying the reply "yes" is on the wire.
C6_Witness ==
  /\ last = [op |-> "confirm", arg |-> <<"sent">>]
  /\ waitingForUserInput
  /\ requests[Len(requests)] = [kind |-> "confirm", task |-> taskId,
                                body |-> <<"yes">>, state |-> "pending"]

\* C7: a confirm request carries a response payload exactly when a reply was
\* required at the click; otherwise its body is empty.
C7_PayloadIffReplyRequired ==
  [][(Len(requests') = Len(requests) + 1
       /\ requests'[Len(requests')].kind = "confirm")
     => /\ OneConfirmSent
        /\ (requests'[Len(requests')].body # <<>>) <=> waitingForUserInput]_vars

\* C7 witness: after a needs_confirmation gate the confirm request went out
\* with an empty body, although the reply input still holds text.
C7_Witness ==
  /\ last = [op |-> "confirm", arg |-> <<"sent">>]
  /\ ~waitingForUserInput
  /\ userReplyInput # <<>>
  /\ requests[Len(requests)].kind = "confirm"
  /\ requests[Len(requests)].body = <<>>

\* C8 as stated: the confirm handler does not clear the reply input; the
\* input is cleared only when the confirm request has completed with success
\* (the user's own edits and the reset of a new start aside).
C8_AsStated ==
  [][(userReplyInput' # userReplyInput /\ last'.op \notin {"type", "run"})
     => last'.op = "resolved" /\ last'.arg = <<"confirm">>]_vars

\* C9 as stated: after a status event waiting_confirm has been processed,
\* confirm and stop are enabled and the reply input is hidden.
C9_AsStated ==
  (last = [op |-> "status", arg |-> <<"waiting_confirm">>])
    => ~confirmBtn /\ ~stopBtn /\ userReplyWrap

\* C9 amended: a status event waiting_confirm changes neither the controls
\* nor the reply input (confirm is enabled by the needs_confirmation or
\* needs_user_input event, not by the status event); when it finds confirm
\* enabled and no reply required, the confirm click that follows sends
\* exactly one request, with an empty body.
C9_WaitingConfirmKeepsControls ==
  /\ [][(last'.op = "status" /\ last'.arg = <<"waiting_confirm">>)
        => UNCHANGED <<runBtn, confirmBtn, stopBtn, userReplyWrap,
                       userReplyInput, waitingForUserInput>>]_vars
  /\ [][(last = [op |-> "status", arg |-> <<"waiting_confirm">>]
          /\ last'.op = "confirm" /\ ~waitingForUserInput)
        => /\ OneConfirmSent
           /\ requests'[Len(requests')].body = <<>>
           /\ confirmBtn']_vars

\* C9 witness: needs_confirmation enabled the controls, then the status
\* event waiting_confirm was processed and found them enabled.
C9_Witness ==
  /\ last = [op |-> "status", arg |-> <<"waiting_confirm">>]
  /\ ~confirmBtn /\ ~stopBtn /\ userReplyWrap
  /\ Len(requests) = 1

\* C10: when the task-creation request succeeds the controller stores the
\* returned identifier, enables stop, leaves confirm disabled and opens one
\* subscription for that identifier; and an open subscription always belongs
\* to the stored identifier.
C10_StartStoresIdAndSubscribes ==
  /\ [][(last'.op = "created" /\ last'.arg[1] = "ok")
        => /\ \E r \in DOMAIN requests :
                /\ requests[r].kind = "create"
                /\ requests[r].state = "pending"
                /\ requests'[r].state = "settled"
                /\ taskId' = r
           /\ ~stopBtn' /\ confirmBtn'
           /\ Len(sources') = Len(sources) + 1
           /\ eventSource' = Len(sources')
           /\ sources'[eventSource'].task = taskId'
           /\ OpenSources' = {eventSource'}]_vars
  /\ [](\A s \in OpenSources : sources[s].task = taskId)

\* C10 witness: the second task-creation request succeeded and its
\* subscription is the one held.
C10_Witness ==
  /\ last.op = "created" /\ last.arg[1] = "ok"
  /\ taskId = 2
  /\ Len(sources) = 1 /\ sources[1].task = 2 /\ eventSource = 1
  /\ ~stopBtn /\ confirmBtn

\* the label the status listener shows for a status value
StatusShown(value) ==
  t(currentLang, "status_prefix") \o " " \o statusLabel(currentLang, value)

\* C11 as stated: right after a successful task-creation response has been
\* handled, the status shown is running, no longer the starting state.
C11_AsStated ==
  (last.op = "created" /\ last.arg[1] = "ok")
    => /\ statusEl # t(currentLang, "status_starting")
       /\ statusEl = StatusShown("running")

\* C12 as stated: handling a non-success response to the task-creation
\* request re-enables run, shows the error status, leaves confirm and stop
\* disabled, appends one failure line with the server's detail (or status
\* text), opens no subscription and keeps the stored task identifier.
C12_AsStated ==
  [][(last'.op = "created" /\ last'.arg[1] = "rejected")
     => /\ ~runBtn'
        /\ statusEl' = StatusShown("error")
        /\ confirmBtn' /\ stopBtn'
        /\ \E text \in {"Model not available", "Bad Request",
                        "Internal Server Error"} :
             logEl' = Append(logEl, t(currentLang, "log_failed_start")
                                    \o ": " \o text)
        /\ UNCHANGED <<sources, eventSource, taskId>>]_vars

\* the same for the non-success responses whose body is JSON
JsonRejectionHandled ==
  [][(last'.op = "created" /\ last'.arg = <<"rejected", "json">>)
     => /\ ~runBtn'
        /\ statusEl' = StatusShown("error")
        /\ confirmBtn' /\ stopBtn'
        /\ \E text \in {"Model not available", "Bad Request"} :
             logEl' = Append(logEl, t(currentLang, "log_failed_start")
                                    \o ": " \o text)
        /\ UNCHANGED <<sources, eventSource, taskId>>]_vars

\* requests of one kind issued for the current task, and those in flight
Sent(kind) ==
  {r \in DOMAIN requests :
     requests[r].kind = kind /\ requests[r].task = taskId}

InFlight(kind) ==
  {r \in DOMAIN requests :
     requests[r].kind = kind /\ requests[r].state = "pending"}

\* the step issues exactly one request, and it is a stop request
OneStopSent ==
  /\ Len(requests') = Len(requests) + 1
  /\ SubSeq(requests', 1, Len(requests)) = requests
  /\ requests'[Len(requests')].kind = "stop"
  /\ requests'[Len(requests')].task = taskId
  /\ requests'[Len(requests')].state = "pending"

\* C13: a confirm (stop) click that issues a request leaves its button
\* disabled when the request goes out; a rejected empty reply sends nothing;
\* the confirm button becomes enabled only by a needs_confirmation or
\* needs_user_input event, the stop button only by such an event or by the
\* start of a task; so the confirm requests of the current task never
\* outnumber the gate events processed for it, and its stop requests never
\* outnumber one plus that number.
C13_NoDuplicateSubmission ==
  /\ [][(last'.op = "confirm" /\ last'.arg = <<"sent">>)
        => OneConfirmSent /\ confirmBtn']_vars
  /\ [][(last'.op = "stop" /\ last'.arg = <<"sent">>)
        => OneStopSent /\ stopBtn']_vars
  /\ [][(last'.op = "confirm" /\ last'.arg = <<"missing_reply">>)
        => requests' = requests]_vars
  /\ [][(confirmBtn /\ ~confirmBtn') => last'.op \in GateOps]_vars
  /\ [][(stopBtn /\ ~stopBtn')
        => \/ last'.op \in GateOps
           \/ last'.op = "created" /\ last'.arg[1] = "ok"]_vars
  /\ [](taskId # 0 =>
          /\ Cardinality(Sent("confirm")) <= gates
          /\ Cardinality(Sent("stop")) <= 1 + gates)

\* C13 witness: two gate events were processed and each was answered by one
\* confirm request; the confirm button is disabled again.
C13_Witness ==
  /\ scope = "clicks"
  /\ last = [op |-> "confirm", arg |-> <<"sent">>]
  /\ gates = 2
  /\ Cardinality(Sent("confirm")) = 2
  /\ confirmBtn

\* C14 as stated: at most one confirm request and at most one stop request
\* is in flight at any time.
C14_AsStated ==
  /\ Cardinality(InFlight("confirm")) <= 1
  /\ Cardinality(InFlight("stop")) <= 1

\* no request is in flight, no subscription is left, every button is disabled
Stuck ==
  /\ \A r \in DOMAIN requests : requests[r].state = "settled"
  /\ OpenSources = {}
  /\ runBtn /\ confirmBtn /\ stopBtn

\* C15 as stated: there is no reachable state in which no request is in
\* flight, no stream is open and run, confirm and stop are all disabled.
C15_AsStated == ~Stuck

\* what the listener of an event kind does with a payload without fields
EmptyPayloadEffect(kind) ==
  CASE kind = "log" -> logListener(Page, NoFields)
    [] kind = "needs_confirmation" ->
         needsConfirmationListener(Page, [summary |-> <<>>])
    [] kind = "needs_user_input" ->
         needsUserInputListener(Page, [question |-> <<>>])
    [] kind = "result" -> resultListener(Page, [result |-> <<>>])
    [] kind = "status" -> statusListener(Page, [status |-> <<>>])

\* C16 as stated: an event of a known kind with a malformed payload has the
\* effect on the status, the controls, waitingForUserInput, the reply input
\* and the subscription that the same event has with all fields absent.
C16_AsStated ==
  [][last'.op = "malformed"
     => LET e == EmptyPayloadEffect(last'.arg[1])
        IN /\ statusEl' = e.statusEl
           /\ runBtn' = e.runBtn
           /\ confirmBtn' = e.confirmBtn
           /\ stopBtn' = e.stopBtn
           /\ waitingForUserInput' = e.waitingForUserInput
           /\ userReplyWrap' = e.userReplyWrap
           /\ sources' = e.sources]_vars

\* the status element shows a status other than waiting for user input
OtherStatusShown ==
  \/ statusEl \in {StatusShown(v) :
                     v \in {"running", "waiting_confirm", "done", "stopped",
                            "error"}}
  \/ statusEl \in {t(currentLang, k) :
                     k \in {"status_idle", "status_starting",
                            "status_wait_confirm"}}

\* C17 as stated: waitingForUserInput is true only while the status is
\* waiting for user input; it is false whenever another status is shown,
\* such as running reported by the task after the reply was submitted.
C17_AsStated == waitingForUserInput => ~OtherStatusShown

\* C18 as stated: after a terminal status event has been processed no task
\* identifier is stored, until the next successful start stores one.
C18_AsStated ==
  /\ [](TerminalStatusRan => taskId = 0)
  /\ [][(taskId = 0 /\ taskId' # 0)
        => last'.op = "created" /\ last'.arg[1] = "ok"]_vars

\* C19: processing a needs_confirmation event appends one log line flagged
\* as a confirmation request with the summary, enables confirm and stop,
\* sets waitingForUserInput to false, hides the reply input and shows the
\* status of waiting for confirmation, whatever the page held before.
C19_NeedsConfirmationEffect ==
  [][last'.op = "needs_confirmation"
     => /\ \E summary \in Summaries :
             logEl' = Append(logEl, t(currentLang, "log_confirm") \o ": "
                                    \o summary[1])
        /\ ~confirmBtn' /\ ~stopBtn'
        /\ ~waitingForUserInput'
        /\ userReplyWrap'
        /\ statusEl' = t(currentLang, "status_wait_confirm")]_vars

\* C19 witness: the event arrived while a reply was awaited (the line before
\* it in the log is the user-input gate) and after stop had been clicked.
C19_Witness ==
  /\ last.op = "needs_confirmation"
  /\ Len(logEl) = 2
  /\ logEl[1] = t(currentLang, "log_user_input") \o ": Which account?"
  /\ logEl[2] = t(currentLang, "log_confirm") \o ": Delete repository"
  /\ Len(requests) = 2 /\ requests[2].kind = "stop"
  /\ ~confirmBtn /\ ~stopBtn /\ ~waitingForUserInput /\ userReplyWrap

\* C20: processing a needs_user_input event appends one log line flagged as
\* a request for input with the question, enables confirm and stop, sets
\* waitingForUserInput to true, reveals the reply input and shows the status
\* of waiting for user input, whatever the page held before.
C20_NeedsUserInputEffect ==
  [][last'.op = "needs_user_input"
     => /\ \E question \in Questions :
             logEl' = Append(logEl, t(currentLang, "log_user_input") \o ": "
                                    \o question[1])
        /\ ~confirmBtn' /\ ~stopBtn'
        /\ waitingForUserInput'
        /\ ~userReplyWrap'
        /\ statusEl' = t(currentLang, "status_wait_user")]_vars

\* C20 witness: the event arrived after a confirmation gate had been
\* confirmed: both buttons are enabled again and the reply input is shown.
C20_Witness ==
  /\ last.op = "needs_user_input"
  /\ Len(logEl) = 2
  /\ logEl[1] = t(currentLang, "log_confirm") \o ": Delete repository"
  /\ logEl[2] = t(currentLang, "log_user_input") \o ": Which account?"
  /\ Len(requests) = 2 /\ requests[2].kind = "confirm"
  /\ ~confirmBtn /\ ~stopBtn /\ waitingForUserInput /\ ~userReplyWrap

\* what applying a language determines: the current language, the persisted
\* language and the text every key resolves to
Language(q) ==
  <<q.currentLang, q.localStorage["ui_lang"],
    [key \in TextKeys |-> t(q.currentLang, key)]>>

\* ----- the settings panel and the models tab
SearchChoices == {"google", "duckduckgo"}
Keys == {<<>>, <<" ">>, <<" ", "sk-secret">>}
\* the provider of the models tab whose lookup is exercised; the three
\* differ in their endpoint and their element ids only
LookupChoices == {"openai"}
\* responses of a models endpoint: models, no models, a rejection
ModelResponses ==
  {[ok |-> TRUE, models |-> <<"gpt-4.1", "gpt-4.1-mini">>, detail |-> <<>>,
    statusText |-> "OK"],
   [ok |-> TRUE, models |-> <<>>, detail |-> <<>>, statusText |-> "OK"],
   [ok |-> FALSE, models |-> <<>>, detail |-> <<"Invalid API key">>,
    statusText |-> "Unauthorized"]}

ProviderChange ==
  \E i \in DOMAIN ProviderOptions :
    /\ variant = "rich" /\ ProviderOptions[i] # providerEl
    /\ Step(providerChange([Page EXCEPT !.providerEl = ProviderOptions[i]]),
            "provider", <<ProviderOptions[i]>>)

ModelChange ==
  \E i \in DOMAIN modelEl.options :
    /\ variant = "rich" /\ modelEl.options[i] # modelEl.value
    /\ Step(modelChange([Page EXCEPT !.modelEl.value = modelEl.options[i]]),
            "model", <<modelEl.options[i]>>)

SearchEngineChange ==
  \E v \in SearchChoices :
    /\ variant = "rich" /\ v # searchEngineEl
    /\ Step(searchEngineChange([Page EXCEPT !.searchEngineEl = v]),
            "search_engine", <<v>>)

SafeModeChange ==
  /\ variant = "rich"
  /\ Step(safeModeChange([Page EXCEPT !.safeModeEl = ~safeModeEl]),
          "safe_mode", <<>>)

BrowserOnlyChange ==
  /\ variant = "rich"
  /\ Step(browserOnlyChange([Page EXCEPT !.browserOnlyEl = ~browserOnlyEl]),
          "browser_only", <<>>)

ThemeClick ==
  \E name \in {"light", "dark"} :
    /\ variant = "rich"
    /\ Step(applyTheme(Page, name), "theme", <<name>>)

\* the page is loaded again over the store it left; the page it replaces
\* takes its subscriptions and its pending requests with it
Reload ==
  /\ variant = "rich"
  /\ Step([Load(localStorage) EXCEPT
            !.sources = [s \in DOMAIN sources |->
                           [sources[s] EXCEPT !.readyState = "closed"]],
            !.requests = [r \in DOMAIN requests |->
                            [requests[r] EXCEPT !.state = "settled"]]],
          "reload", <<>>)

\* the user edits a key input of the models tab
TypeKey ==
  \E provider \in LookupChoices, v \in Keys :
    /\ variant = "rich" /\ v # keyInput[provider]
    /\ Step([Page EXCEPT !.keyInput[provider] = v], "key", <<provider>>)

FetchModelsClick ==
  \E provider \in LookupChoices :
    /\ variant = "rich"
    /\ Step(fetchModels(Page, provider), "models",
            <<provider, IF Trim(keyInput[provider]) = <<>>
                        THEN "missing_key" ELSE "sent">>)

ModelsResponse ==
  \E r \in DOMAIN requests, resp \in ModelResponses :
    /\ requests[r].kind = "models" /\ requests[r].state = "pending"
    /\ Step(modelsResponse(Page, r, resp), "models_response",
            <<requests[r].body[1]>>)

ModelsRejected ==
  \E r \in DOMAIN requests :
    /\ requests[r].kind = "models" /\ requests[r].state = "pending"
    /\ Step(modelsRejected(Page, r), "models_rejected",
            <<requests[r].body[1]>>)

\* model selection on its own: the store may hold a model written by an
\* earlier version of the client under the key "llm_model"
InitModels ==
  /\ variant = "rich"
  /\ \E lang \in {"ru", "en"}, legacy \in {<<>>, <<"gpt-4.1">>} :
       Is(Load([Document.localStorage EXCEPT !["ui_lang"] = <<lang>>,
                                             !["llm_model"] = legacy]))
  /\ last = [op |-> "load", arg |-> <<>>]
  /\ scope = "session" /\ gates = 0

NextModels == ProviderChange \/ ModelChange \/ Reload

SpecModels == InitModels /\ [][NextModels]_vars

\* model lookups next to the settings edits and the start of a task, from
\* a first visit
InitLookup ==
  /\ variant = "rich"
  /\ Is(Load(Document.localStorage))
  /\ last = [op |-> "load", arg |-> <<>>]
  /\ scope = "lookup" /\ gates = 0

NextLookup ==
  \/ TypeKey
  \/ FetchModelsClick
  \/ ModelsResponse
  \/ ModelsRejected
  \/ ProviderChange
  \/ ModelChange
  \/ SearchEngineChange
  \/ SafeModeChange
  \/ BrowserOnlyChange
  \/ ThemeClick
  \/ LangToggle
  \/ RunClick
  \/ RunResponse

SpecLookup == InitLookup /\ [][NextLookup]_vars

\* C21: applying a language twice gives the language state that applying it
\* once gives, toggling twice gives back the language state the page has,
\* and a toggle that follows a toggle restores the language the first one
\* switched from, its persisted value and the text of every key.
C21_LanguageIdempotentInvolution ==
  /\ [](\A lang \in {"en", "ru"} :
          Language(applyLanguage(applyLanguage(Page, lang), lang))
            = Language(applyLanguage(Page, lang)))
  /\ [](Language(langToggleClick(langToggleClick(Page))) = Language(Page))
  /\ [][(last.op = "lang" /\ last'.op = "lang")
        => /\ currentLang' = last.arg[1]
           /\ localStorage'["ui_lang"] = <<last.arg[1]>>
           /\ \A key \in TextKeys : t(currentLang', key) = t(last.arg[1], key)]_vars

\* C21 witness: the language was toggled from ru to en while a task was
\* running; en is current and persisted.
C21_Witness ==
  /\ last = [op |-> "lang", arg |-> <<"ru">>]
  /\ currentLang = "en" /\ localStorage["ui_lang"] = <<"en">>
  /\ taskId # 0 /\ OpenSources # {}

\* the text the resolution rule gives: the key's text in the language if it
\* exists, else its English text if it exists, else the key
Resolved(lang, key) ==
  IF lang \in DOMAIN I18N /\ key \in DOMAIN I18N[lang] THEN I18N[lang][key]
  ELSE IF key \in DOMAIN I18N["en"] THEN I18N["en"][key]
  ELSE key

OwnKeysResolved ==
  (last.op = "t" /\ last.arg[1] \notin Inherited)
    => last.arg[2] = Resolved(currentLang, last.arg[1])

\* C25: a run click that issues the task-creation request leaves run
\* disabled; run becomes enabled again only when that request is rejected
\* or a terminal status event is processed; so run is disabled while a
\* task-creation request is in flight and at most one is in flight.
C25_StartDisabledWhileTaskActive ==
  /\ [][(last'.op = "run" /\ last'.arg = <<"sent">>) => runBtn']_vars
  /\ [][(runBtn /\ ~runBtn')
        => \/ last'.op = "created" /\ last'.arg[1] = "rejected"
           \/ /\ last'.op = "status" /\ last'.arg # <<>>
              /\ last'.arg[1] \in Terminal]_vars
  /\ [](InFlight("create") # {} => runBtn)
  /\ [](Cardinality(InFlight("create")) <= 1)

\* C25 witness: the first task ended with a terminal status, run was clicked
\* again and the second task-creation request is in flight, run disabled.
C25_Witness ==
  /\ last = [op |-> "run", arg |-> <<"sent">>]
  /\ taskId = 1
  /\ Len(requests) = 2
  /\ requests[1].state = "settled"
  /\ requests[2].kind = "create" /\ requests[2].state = "pending"
  /\ runBtn

\* the status element shows waiting for confirmation or for user input
WaitingShown ==
  \/ statusEl \in {t(currentLang, k) :
                     k \in {"status_wait_confirm", "status_wait_user"}}
  \/ statusEl \in {StatusShown(v) : v \in {"waiting_confirm", "waiting_user"}}

\* C26 as stated: whenever the confirm button is enabled, the status shown
\* is waiting for confirmation or waiting for user input.
C26_AsStated == ~confirmBtn => WaitingShown

\* C27 as stated: a confirm click rejected for an empty reply leaves the
\* status shown, waitingForUserInput, the stop button, the reply input and
\* the subscription as they were.
C27_AsStated ==
  [][(last'.op = "confirm" /\ last'.arg = <<"missing_reply">>)
     => UNCHANGED <<statusEl, waitingForUserInput, stopBtn, userReplyWrap,
                    userReplyInput, eventSource, sources>>]_vars

\* C28 as stated: toggling the language leaves the three buttons,
\* waitingForUserInput and the subscription unchanged, and the status shown
\* stays the same status: it does not turn into idle.
C28_AsStated ==
  [][last'.op = "lang"
     => /\ UNCHANGED <<runBtn, confirmBtn, stopBtn, waitingForUserInput,
                       eventSource, sources>>
        /\ (statusEl' = t(currentLang', "status_idle"))
             => (statusEl = t(currentLang, "status_idle"))]_vars

\* C29: a log event and a result event each append exactly one line to the
\* log and leave the status, the three buttons, waitingForUserInput, the
\* task identifier and the subscription unchanged.
C29_LogResultOnlyAppend ==
  [][last'.op \in {"log", "result"}
     => /\ Len(logEl') = Len(logEl) + 1
        /\ SubSeq(logEl', 1, Len(logEl)) = logEl
        /\ UNCHANGED <<statusEl, runBtn, confirmBtn, stopBtn,
                       waitingForUserInput, taskId, eventSource, sources>>]_vars

\* C29 witness: a log event was processed while the task waited for a reply;
\* its line follows the gate line and the gate is as it was.
C29_Witness ==
  /\ last.op = "log"
  /\ Len(logEl) = 2
  /\ logEl[1] = t(currentLang, "log_user_input") \o ": Which account?"
  /\ logEl[2] = "[1] " \o t(currentLang, "action_navigate")
                  \o " navigate ok (1.2s)"
  /\ waitingForUserInput /\ ~confirmBtn /\ ~stopBtn
  /\ statusEl = t(currentLang, "status_wait_user")

\* C30: a status event whose value is not done, stopped or error sets the
\* status element to the label of the value and changes nothing else: the
\* buttons, waitingForUserInput, the reply input, the log, the task
\* identifier and the subscription, which stays open.
C30_NonTerminalStatusOnlyLabel ==
  [][(last'.op = "status"
       /\ (last'.arg = <<>> \/ last'.arg[1] \notin Terminal))
     => /\ statusEl' = t(currentLang, "status_prefix") \o " "
                         \o statusLabel(currentLang, OrEmpty(last'.arg))
        /\ UNCHANGED <<runBtn, confirmBtn, stopBtn, waitingForUserInput,
                       userReplyWrap, userReplyInput, logEl, taskId,
                       eventSource, sources>>
        /\ eventSource \in OpenSources']_vars

\* C30 witness: the status waiting_user arrived while a reply was awaited;
\* the reply input is still shown and the subscription is open.
C30_Witness ==
  /\ last = [op |-> "status", arg |-> <<"waiting_user">>]
  /\ statusEl = StatusShown("waiting_user")
  /\ waitingForUserInput /\ ~userReplyWrap /\ ~confirmBtn
  /\ eventSource \in OpenSources

\* the store apart from the keys in ks
Others(store, ks) == [k \in LSKeys \ ks |-> store[k]]

\* C23: selecting a model under the provider shown writes that provider's
\* model key with the model selected and no other key; switching the
\* provider writes the provider key and no model key, and shows the model
\* stored for the provider switched to, or its first model when none is
\* stored; a stored model is one of its provider's models.
C23_ModelChoicePerProvider ==
  /\ [][last'.op = "model"
        => /\ providerEl' = providerEl
           /\ localStorage'[ModelKey(providerEl)] = last'.arg
           /\ modelEl'.value = last'.arg[1]
           /\ Others(localStorage', {ModelKey(providerEl)})
                = Others(localStorage, {ModelKey(providerEl)})]_vars
  /\ [][last'.op = "provider"
        => /\ providerEl' = last'.arg[1]
           /\ localStorage'["llm_provider"] = last'.arg
           /\ Others(localStorage', {"llm_provider"})
                = Others(localStorage, {"llm_provider"})
           /\ modelEl'.options = MODEL_OPTIONS[providerEl']
           /\ modelEl'.value
                = IF localStorage[ModelKey(providerEl')] # <<>>
                  THEN localStorage[ModelKey(providerEl')][1]
                  ELSE MODEL_OPTIONS[providerEl'][1]]_vars
  /\ [](\A i \in DOMAIN ProviderOptions :
          LET stored == localStorage[ModelKey(ProviderOptions[i])]
          IN stored # <<>>
               => \E j \in DOMAIN MODEL_OPTIONS[ProviderOptions[i]] :
                    MODEL_OPTIONS[ProviderOptions[i]][j] = stored[1])

\* C23 witness: gpt-4.1-mini was selected under openai and a model under
\* anthropic; the provider was switched back to openai and gpt-4.1-mini is
\* shown again, anthropic's stored model being as it was.
C23_Witness ==
  /\ last = [op |-> "provider", arg |-> <<"openai">>]
  /\ providerEl = "openai"
  /\ modelEl.value = "gpt-4.1-mini"
  /\ localStorage["llm_model_openai"] = <<"gpt-4.1-mini">>
  /\ localStorage["llm_model_anthropic"] = <<"claude-3-5-haiku-latest">>

\* every text made from a key typed into a key input
Secrets == UNION {{Str(v), Str(Trim(v))} : v \in Keys \ {<<>>}}

\* C24: no value of the store is a text made from a typed key, whatever
\* lookups, settings edits and task starts have happened; and every lookup
\* request issued carries a key that is not empty once trimmed, so a lookup
\* with an empty key issued none.
C24_KeyNeverStored ==
  /\ \A k \in LSKeys :
       localStorage[k] = <<>> \/ localStorage[k][1] \notin Secrets
  /\ \A r \in DOMAIN requests :
       requests[r].kind = "models"
         => requests[r].body[2] \in {Str(Trim(v)) : v \in Keys} \ {""}

\* C24 witness: a lookup with the key sk-secret was answered after the
\* provider had been changed; the store holds the provider and no key.
C24_Witness ==
  /\ last = [op |-> "models_response", arg |-> <<"openai">>]
  /\ keyInput["openai"] = <<" ", "sk-secret">>
  /\ requests[1].body = <<"openai", "sk-secret">>
  /\ outputEl["openai"] = "gpt-4.1\ngpt-4.1-mini"
  /\ localStorage["llm_provider"] = <<"anthropic">>

\* the log has grown by exactly this line
Appended(line) == logEl' = Append(logEl, line)

\* C31: a transport failure of a subscription appends the stream-error line
\* to the log; the status, the buttons, waitingForUserInput, the reply
\* input and the task identifier are unchanged, no request is issued, and
\* the handler neither closes nor replaces a subscription: the only change
\* to the subscriptions is the transport's own transition.
C31_StreamErrorOnlyLogs ==
  [][last'.op = "onerror"
     => /\ Appended(t(currentLang, "log_event_error"))
        /\ UNCHANGED <<statusEl, runBtn, confirmBtn, stopBtn,
                       waitingForUserInput, userReplyWrap, userReplyInput,
                       taskId, eventSource, requests, currentLang>>
        /\ \E s \in DOMAIN sources :
             /\ sources[s].readyState # "closed"
             /\ sources' = [sources EXCEPT ![s].readyState = last'.arg[1]]]_vars

\* C31 witness: the transport failed and is reconnecting while the task
\* waits for a confirmation; the gate and the subscription are as they were.
C31_Witness ==
  /\ last = [op |-> "onerror", arg |-> <<"connecting">>]
  /\ logEl[Len(logEl)] = t(currentLang, "log_event_error")
  /\ statusEl = t(currentLang, "status_wait_confirm")
  /\ ~confirmBtn /\ ~stopBtn /\ runBtn
  /\ eventSource \in OpenSources

\* C33: the completion of a confirm or stop request, resolved or rejected,
\* changes nothing but the request's own state: status, buttons,
\* waitingForUserInput, reply input, log, task identifier and subscriptions
\* are unchanged and no request is issued; and while such a request is in
\* flight a stream event changes no request.
C33_ConfirmStopFireAndForget ==
  /\ [][(last'.op \in {"resolved", "rejected"}
          /\ last'.arg[1] \in {"confirm", "stop"})
        => /\ UNCHANGED <<statusEl, logEl, runBtn, confirmBtn, stopBtn,
                          waitingForUserInput, userReplyWrap, userReplyInput,
                          taskId, eventSource, sources>>
           /\ Len(requests') = Len(requests)
           /\ \E r \in DOMAIN requests :
                /\ requests[r].state = "pending"
                /\ requests' = [requests EXCEPT ![r].state = "settled"]]_vars
  /\ [][(last'.op \in StreamOps
          /\ (InFlight("confirm") \cup InFlight("stop")) # {})
        => requests' = requests]_vars

\* C33 witness: a terminal status event was processed while the confirm
\* request was still in flight.
C33_Witness ==
  /\ TerminalStatusRan
  /\ InFlight("confirm") # {}
  /\ ~runBtn /\ confirmBtn /\ stopBtn

\* C34: apart from an accepted run click, which clears it, every step leaves
\* the lines of the log in place and in order and may only add lines after
\* them; a log event that follows a log event adds a second line, equal to
\* the first when the events are equal.
C34_EventsInArrivalOrder ==
  /\ [][(last'.op # "run" /\ last'.op # "reload")
        => /\ Len(logEl') >= Len(logEl)
           /\ SubSeq(logEl', 1, Len(logEl)) = logEl]_vars
  /\ [][(last.op = "log" /\ last'.op = "log")
        => /\ Len(logEl') = Len(logEl) + 1
           /\ logEl'[Len(logEl')] = logEl[Len(logEl)]]_vars
  /\ [][(last.op = "result" /\ last'.op = "result")
        => /\ Len(logEl') = Len(logEl) + 1
           /\ logEl'[Len(logEl')] = logEl[Len(logEl)]]_vars

\* C34 witness: two equal log events in a row left two equal lines.
C34_Witness ==
  /\ last.op = "log"
  /\ Len(logEl) = 2
  /\ logEl[1] = logEl[2]
  /\ logEl[1] = "[1] " \o t(currentLang, "action_navigate")
                  \o " navigate ok (1.2s)"

\* C32: an event of a kind without a listener leaves the log, the status,
\* the buttons, waitingForUserInput, the reply input, the task identifier,
\* the requests and the subscriptions unchanged; the event that follows it
\* has the effect its listener gives it on the page as it is.
C32_UnknownKindIgnored ==
  /\ [][last'.op = "unknown"
        => UNCHANGED <<logEl, statusEl, runBtn, confirmBtn, stopBtn,
                       waitingForUserInput, userReplyWrap, userReplyInput,
                       taskId, eventSource, sources, requests>>]_vars
  /\ [][(last.op = "unknown" /\ last'.op = "log")
        => \E d \in LogPayloads : Becomes(logListener(Page, d))]_vars
  /\ [][(last.op = "unknown" /\ last'.op = "needs_user_input")
        => \E question \in Questions :
             Becomes(needsUserInputListener(Page, [question |-> question]))]_vars
  /\ [][(last.op = "unknown" /\ last'.op = "status")
        => Becomes(statusListener(Page, [status |-> last'.arg]))]_vars

\* C32 witness: an event of an unknown kind arrived during an open reply
\* gate; the gate is as the needs_user_input event left it.
C32_Witness ==
  /\ last = [op |-> "unknown", arg |-> <<"heartbeat">>]
  /\ statusEl = t(currentLang, "status_wait_user")
  /\ waitingForUserInput /\ ~userReplyWrap /\ ~confirmBtn
  /\ Len(logEl) = 1
  /\ eventSource \in OpenSources

\* one decimal of seconds: the tenths, as "s.t"
Tenths(n) == NumStr(n \div 10) \o "." \o Digit(n % 10)

\* C35: the log line of an event that carries only duration_ms is "[]"
\* followed by the duration fragment: for a number of 1000 or more, the
\* seconds with one decimal, a nearest tenth of ms / 1000, and "s"; for a
\* number below 1000 the integer and "ms"; for an absent value or a value
\* that is not a number, no fragment.
C35_DurationFragment ==
  last.op = "logged"
    => LET ms == last.arg
           line == logEl[Len(logEl)]
       IN /\ Len(logEl) = 1
          /\ IF Len(ms) # 1 THEN line = "[]"
             ELSE IF ms[1] < 1000
             THEN line = "[] (" \o NumStr(ms[1]) \o "ms)"
             ELSE \E n \in {ms[1] \div 100, ms[1] \div 100 + 1} :
                    /\ 100 * n - ms[1] <= 50
                    /\ ms[1] - 100 * n <= 50
                    /\ line = "[] (" \o Tenths(n) \o "s)"
          /\ (ms = <<1200>> => line = "[] (1.2s)")
          /\ (ms = <<999>> => line = "[] (999ms)")

\* C35 witness: 1960 ms is logged as 2.0s, the seconds rounded and not cut.
C35_Witness ==
  /\ last = [op |-> "logged", arg |-> <<1960>>]
  /\ logEl = <<"[] (2.0s)">>

\* the step answers a pending task-creation request; Answered is its number,
\* which is the identifier a successful response returns
AnsweredCreate(r) ==
  /\ r \in DOMAIN requests
  /\ requests[r].kind = "create" /\ requests[r].state = "pending"
  /\ requests'[r].state = "settled"

\* C36: a step that issues a confirm or stop request does so with a task
\* identifier that is set, and targets it; the task identifier changes only
\* when a task-creation request is answered with success, and then becomes
\* the identifier that response returned.  So every confirm or stop request
\* follows a successful creation and targets the most recent one.
C36_TargetsCurrentTask ==
  /\ [][Len(requests') > Len(requests)
        => LET new == requests'[Len(requests')]
           IN new.kind \in {"confirm", "stop"}
                => taskId # 0 /\ new.task = taskId /\ taskId' = taskId]_vars
  /\ [][taskId' # taskId
        => last'.op = "created" /\ last'.arg[1] = "ok"]_vars
  /\ [][(last'.op = "created" /\ last'.arg[1] = "ok")
        => \E r \in DOMAIN requests : AnsweredCreate(r) /\ taskId' = r]_vars

\* C36 witness: stop was clicked during the second task; the request
\* targets the second task, not the first.
C36_Witness ==
  /\ last = [op |-> "stop", arg |-> <<"sent">>]
  /\ Len(requests) = 3
  /\ requests[1].kind = "create" /\ requests[2].kind = "create"
  /\ taskId = 2
  /\ requests[3].kind = "stop" /\ requests[3].task = 2

\* C37: in the client that disables start while a task is active, whenever
\* start is enabled no stream subscription is open.
C37_StartEnabledNoOpenStream ==
  (variant = "rich" /\ ~runBtn) => OpenSources = {}

\* C37 witness: a terminal status has enabled start again, and the
\* subscription the task had is closed.
C37_Witness ==
  /\ variant = "rich"
  /\ TerminalStatusRan
  /\ ~runBtn
  /\ sources # <<>>
  /\ OpenSources = {}

\* start was accepted: the click sent a create request and disabled start
StartAccepted ==
  last = [op |-> "run", arg |-> <<"sent">>] /\ runBtn

\* start is enabled again, confirm and stop are disabled, no stream is open
ReadyAgain ==
  ~runBtn /\ confirmBtn /\ stopBtn /\ OpenSources = {}

\* C38 as stated: when every create is answered and every opened stream
\* delivers a terminal status, an accepted start is eventually followed by a
\* state where start is enabled again with confirm and stop disabled and the
\* stream closed.  Violated: a failure response whose body is not JSON ends
\* the run handler at response.json(), and start stays disabled for good.
C38_AsStated == StartAccepted ~> ReadyAgain

\* the run handler ended without enabling start: start is disabled, no
\* create request is pending and no stream is open
HandlerDied ==
  /\ runBtn /\ OpenSources = {}
  /\ \A r \in DOMAIN requests :
       requests[r].kind = "create" => requests[r].state = "settled"

\* an accepted start is followed by a ready page or by a dead run handler
StartSettles == StartAccepted ~> (ReadyAgain \/ HandlerDied)

\* the run handler dies only on a failure response whose body is not JSON
DiesOnUnreadableFailure ==
  [][(HandlerDied' /\ ~HandlerDied)
       => last' = [op |-> "created", arg |-> <<"rejected", "not_json">>]]_vars

====
